---- MODULE Spec2Model ----
(***************************************************************************)
(* Model of the Hera (Juno-60) plugin for Move Anything:                   *)
(* src/dsp/hera_plugin.cpp (kept here as src/unnamed/part_001).            *)
(*                                                                         *)
(* The plugin instance (hera_instance_t) is the record `inst`; every       *)
(* function of the plugin is an operator from an instance to the instance  *)
(* it leaves behind.  Float parameter values are fixed-point integers in   *)
(* units of 1/Unit.  A velocity data2/127.0f is kept as its numerator; a   *)
(* frequency midi_to_freq(note) * 2^(semitones/12) as the pair [note,      *)
(* bend], bend being the 14-bit bend value minus 8192 (7 semitones are     *)
(* 8192).                                                                  *)
(* HeraEnvelope and HeraLFOWithEnvelope are not part of the sources at     *)
(* hand: their stage machines follow sections 4.1 and 4.2 of the           *)
(* specification.                                                          *)
(***************************************************************************)
EXTENDS Integers, Sequences, FiniteSets, TLC

VARIABLES
    inst,   \* the plugin instance (hera_instance_t)
    last,   \* the API call that led to this state, with its arguments
    nev,    \* number of API calls made so far
    run     \* the calls in progress: where the control thread and the
            \* render thread stand, with their locals

vars == <<inst, last, nev, run>>

\* one float unit (1.0f) in fixed point
Unit == 10 * 10 * 10 * 10 * 10

-----------------------------------------------------------------------------
(* Constants of the plugin *)

MAX_VOICES == 6
MAX_PRESETS == 128
MAX_BLOCK_SIZE == 256

kHeraParamVCA == 0
kHeraParamVCAType == 1
kHeraParamPWMDepth == 2
kHeraParamPWMMod == 3
kHeraParamSawLevel == 4
kHeraParamPulseLevel == 5
kHeraParamSubLevel == 6
kHeraParamNoiseLevel == 7
kHeraParamPitchRange == 8
kHeraParamPitchModDepth == 9
kHeraParamVCFCutoff == 10
kHeraParamVCFResonance == 11
kHeraParamVCFEnvelopeModDepth == 12
kHeraParamVCFLFOModDepth == 13
kHeraParamVCFKeyboardModDepth == 14
kHeraParamVCFBendDepth == 15
kHeraParamAttack == 16
kHeraParamDecay == 17
kHeraParamSustain == 18
kHeraParamRelease == 19
kHeraParamLFOTriggerMode == 20
kHeraParamLFORate == 21
kHeraParamLFODelay == 22
kHeraParamHPF == 23
kHeraParamChorusI == 24
kHeraParamChorusII == 25
kHeraNumParameters == 26

kHeraVCATypeEnvelope == 0
kHeraVCATypeGate == 1

kHeraPWMManual == 0

kHeraLFOManual == 0
kHeraLFOAuto == 1

\* the pool slots, and the parameter indices
Slots == 0 .. (MAX_VOICES - 1)
ParamIdx == 0 .. (kHeraNumParameters - 1)

\* (int)value of a float: truncation toward zero
CastInt(value) ==
    IF value >= 0 THEN value \div Unit ELSE -((-value) \div Unit)

\* XML ids of the parameters, in index order
g_param_ids ==
    << "VCADepth", "VCAType", "DCOPWMDepth", "DCOPWMMod", "DCOSawLevel",
       "DCOPulseLevel", "DCOSubLevel", "DCONoiseLevel", "DCORange",
       "DCOPitchModDepth", "VCFCutoff", "VCFResonance", "VCFEnv", "VCFLFO",
       "VCFKey", "VCFBendDepth", "ENVAttack", "ENVDecay", "ENVSustain",
       "ENVRelease", "LFOTrigMode", "LFORate", "LFODelay", "HPF", "ChorusI",
       "ChorusII" >>

\* default value of each parameter index
g_param_defaults ==
    [i \in ParamIdx |->
        CASE i = kHeraParamVCA -> Unit \div 2
          [] i = kHeraParamPWMDepth -> Unit \div 2
          [] i = kHeraParamSawLevel -> Unit
          [] i = kHeraParamPitchRange -> Unit
          [] i = kHeraParamVCFCutoff -> Unit \div 2
          [] i = kHeraParamLFOTriggerMode -> Unit
          [] OTHER -> 0]

ShadowDef(k, t, i, lo, hi) ==
    [key |-> k, type |-> t, index |-> i, min_val |-> lo, max_val |-> hi]

\* the catalog with a copied line left half edited: vcf_env points at the
\* cutoff index
g_shadow_params_repeated_index ==
    << ShadowDef("saw_level", "float", kHeraParamSawLevel, 0, Unit),
       ShadowDef("pulse_level", "float", kHeraParamPulseLevel, 0, Unit),
       ShadowDef("sub_level", "float", kHeraParamSubLevel, 0, Unit),
       ShadowDef("noise_level", "float", kHeraParamNoiseLevel, 0, Unit),
       ShadowDef("pwm_depth", "float", kHeraParamPWMDepth, 0, Unit),
       ShadowDef("pwm_mod", "int", kHeraParamPWMMod, 0, 2 * Unit),
       ShadowDef("pitch_range", "int", kHeraParamPitchRange, 0, 2 * Unit),
       ShadowDef("pitch_mod", "float", kHeraParamPitchModDepth, 0, Unit),
       ShadowDef("vcf_cutoff", "float", kHeraParamVCFCutoff, 0, Unit),
       ShadowDef("vcf_resonance", "float", kHeraParamVCFResonance, 0, Unit),
       ShadowDef("vcf_env", "float", kHeraParamVCFCutoff, -Unit, Unit),
       ShadowDef("vcf_lfo", "float", kHeraParamVCFLFOModDepth, 0, Unit),
       ShadowDef("vcf_key", "float", kHeraParamVCFKeyboardModDepth, 0, Unit),
       ShadowDef("vcf_bend", "float", kHeraParamVCFBendDepth, 0, Unit),
       ShadowDef("vca_depth", "float", kHeraParamVCA, 0, Unit),
       ShadowDef("vca_type", "int", kHeraParamVCAType, 0, Unit),
       ShadowDef("attack", "float", kHeraParamAttack, 0, Unit),
       ShadowDef("decay", "float", kHeraParamDecay, 0, Unit),
       ShadowDef("sustain", "float", kHeraParamSustain, 0, Unit),
       ShadowDef("release", "float", kHeraParamRelease, 0, Unit),
       ShadowDef("lfo_rate", "float", kHeraParamLFORate, 0, Unit),
       ShadowDef("lfo_delay", "float", kHeraParamLFODelay, 0, Unit),
       ShadowDef("lfo_trigger", "int", kHeraParamLFOTriggerMode, 0, Unit),
       ShadowDef("hpf", "float", kHeraParamHPF, 0, Unit),
       ShadowDef("chorus_i", "int", kHeraParamChorusI, 0, Unit),
       ShadowDef("chorus_ii", "int", kHeraParamChorusII, 0, Unit) >>

\* the shadow-UI catalog: key, type, parameter index, range
g_shadow_params ==
    << ShadowDef("saw_level", "float", kHeraParamSawLevel, 0, Unit),
       ShadowDef("pulse_level", "float", kHeraParamPulseLevel, 0, Unit),
       ShadowDef("sub_level", "float", kHeraParamSubLevel, 0, Unit),
       ShadowDef("noise_level", "float", kHeraParamNoiseLevel, 0, Unit),
       ShadowDef("pwm_depth", "float", kHeraParamPWMDepth, 0, Unit),
       ShadowDef("pwm_mod", "int", kHeraParamPWMMod, 0, 2 * Unit),
       ShadowDef("pitch_range", "int", kHeraParamPitchRange, 0, 2 * Unit),
       ShadowDef("pitch_mod", "float", kHeraParamPitchModDepth, 0, Unit),
       ShadowDef("vcf_cutoff", "float", kHeraParamVCFCutoff, 0, Unit),
       ShadowDef("vcf_resonance", "float", kHeraParamVCFResonance, 0, Unit),
       ShadowDef("vcf_env", "float", kHeraParamVCFEnvelopeModDepth, -Unit, Unit),
       ShadowDef("vcf_lfo", "float", kHeraParamVCFLFOModDepth, 0, Unit),
       ShadowDef("vcf_key", "float", kHeraParamVCFKeyboardModDepth, 0, Unit),
       ShadowDef("vcf_bend", "float", kHeraParamVCFBendDepth, 0, Unit),
       ShadowDef("vca_depth", "float", kHeraParamVCA, 0, Unit),
       ShadowDef("vca_type", "int", kHeraParamVCAType, 0, Unit),
       ShadowDef("attack", "float", kHeraParamAttack, 0, Unit),
       ShadowDef("decay", "float", kHeraParamDecay, 0, Unit),
       ShadowDef("sustain", "float", kHeraParamSustain, 0, Unit),
       ShadowDef("release", "float", kHeraParamRelease, 0, Unit),
       ShadowDef("lfo_rate", "float", kHeraParamLFORate, 0, Unit),
       ShadowDef("lfo_delay", "float", kHeraParamLFODelay, 0, Unit),
       ShadowDef("lfo_trigger", "int", kHeraParamLFOTriggerMode, 0, Unit),
       ShadowDef("hpf", "float", kHeraParamHPF, 0, Unit),
       ShadowDef("chorus_i", "int", kHeraParamChorusI, 0, Unit),
       ShadowDef("chorus_ii", "int", kHeraParamChorusII, 0, Unit) >>

-----------------------------------------------------------------------------
(* HeraEnvelope: the ADSR stage machine of section 4.1.  level is the       *)
(* output level, 0 for silence and 1 for any level above it; start is the   *)
(* level the attack ramp in progress started from.                          *)

EnvStages == {"Idle", "Attack", "Decay", "Sustain", "Release"}

HeraEnvelope == [stage |-> "Idle", level |-> 0, start |-> 0]

\* restart at Attack, the ramp starting from the current output level
env_noteOn(e) == [stage |-> "Attack", level |-> e.level, start |-> e.level]

env_noteOff(e) ==
    IF e.stage \in {"Attack", "Decay", "Sustain"}
    THEN [e EXCEPT !.stage = "Release", !.start = 0]
    ELSE e

env_shutdown(e) == HeraEnvelope

env_reset(e) == HeraEnvelope

env_isActive(e) == e.stage # "Idle"

env_isReleased(e) == e.stage \in {"Release", "Idle"}

\* one block of samples: the current stage either lasts through the block
\* or completes in it (Sustain lasts until note-off)
env_processNextBlock(e, completes) ==
    CASE e.stage = "Attack" ->
           IF completes THEN [stage |-> "Decay", level |-> 1, start |-> 0]
           ELSE [e EXCEPT !.level = 1]
      [] e.stage = "Decay" ->
           IF completes THEN [e EXCEPT !.stage = "Sustain"] ELSE e
      [] e.stage = "Release" ->
           IF completes THEN HeraEnvelope ELSE e
      [] OTHER -> e

-----------------------------------------------------------------------------
(* HeraLFOWithEnvelope: the delay+attack amplitude window of section 4.2 *)

LfoStages == {"Off", "Delay", "Attack", "On"}

HeraLFOWithEnvelope == [stage |-> "Off", call |-> "none"]

\* trigger: the delay+attack ramp starts from 0
lfo_noteOn(l) == [stage |-> "Delay", call |-> "noteOn"]

\* the last held note was released: the window is shut
lfo_noteOff(l) == [stage |-> "Off", call |-> "noteOff"]

\* forced reset to the silent state
lfo_shutdown(l) == [stage |-> "Off", call |-> "shutdown"]

lfo_processBlock(l, completes) ==
    IF ~completes THEN l
    ELSE CASE l.stage = "Delay" -> [l EXCEPT !.stage = "Attack"]
           [] l.stage = "Attack" -> [l EXCEPT !.stage = "On"]
           [] OTHER -> l

-----------------------------------------------------------------------------
(* HeraVoiceState.  dco and vcf stand for the memory of the oscillator and   *)
(* of the filter: "clear" as instanceClear() and reset() leave it, "run"     *)
(* once a block of samples went through it.                                  *)

\* what setAttack, setDecay, setSustain and setRelease were last called with
\* on an envelope.  The constructor sets the gate envelope's (0.00247, 0.0057,
\* 0.98, 0.0057); the general envelope's are written by v2_create_instance's
\* defaults before anything reads them.
EnvelopeSettings(a, d, s, r) ==
    [attack |-> a, decay |-> d, sustain |-> s, release |-> r]

HeraVoiceState ==
    [active |-> FALSE, note |-> -1, velocity |-> 0,
     vcaType |-> kHeraVCATypeEnvelope, pwmMod |-> kHeraPWMManual,
     dcoFreq |-> [note |-> 69, bend |-> 0],
     dco |-> "clear", vcf |-> "clear",
     normalEnvelope |-> HeraEnvelope, gateEnvelope |-> HeraEnvelope,
     normalSettings |-> EnvelopeSettings(0, 0, 0, 0),
     gateSettings |-> EnvelopeSettings(247, 570, 98000, 570)]

\* which of the two envelopes governs the voice
getCurrentEnvelope(voice) ==
    IF voice.vcaType = kHeraVCATypeEnvelope
    THEN voice.normalEnvelope ELSE voice.gateEnvelope

\* the voice with its governing envelope replaced by e
\* setCurrentEnvelope that writes both envelopes of the voice
setCurrentEnvelope_both(voice, e) ==
    [voice EXCEPT !.normalEnvelope = e, !.gateEnvelope = e]

setCurrentEnvelope(voice, e) ==
    IF voice.vcaType = kHeraVCATypeEnvelope
    THEN [voice EXCEPT !.normalEnvelope = e]
    ELSE [voice EXCEPT !.gateEnvelope = e]

isReleased(voice) == env_isReleased(getCurrentEnvelope(voice))

-----------------------------------------------------------------------------
(* Parameter distribution *)

\* e, with the instance `in` evaluated first: the loops over the 26 parameters
\* hand on an evaluated instance, as the sequential code does, instead of 26
\* nested pending evaluations
Strict(in, e) == IF in.preset_count >= 0 THEN e ELSE e

\* apply_param: store the value, then hand it to its consumer
\* apply_param that shuts the LFO down on every trigger-mode write
apply_param_lfo_always_shutdown(in, param_idx, value) ==
    IF param_idx < 0 \/ param_idx >= kHeraNumParameters THEN in
    ELSE
      LET s == [in EXCEPT !.params[param_idx] = value] IN
      CASE param_idx = kHeraParamVCAType ->
             [s EXCEPT !.vcaType = CastInt(value),
                       !.voices = [i \in Slots |->
                           [s.voices[i] EXCEPT !.vcaType = CastInt(value)]]]
        [] param_idx = kHeraParamPWMMod ->
             [s EXCEPT !.voices = [i \in Slots |->
                           [s.voices[i] EXCEPT !.pwmMod = CastInt(value)]]]
        [] param_idx = kHeraParamPitchRange ->
             LET factors == << Unit \div 2, Unit, 2 * Unit >>
                 c == CastInt(value)
                 idx == IF c > 2 THEN 2 ELSE IF c < 0 THEN 0 ELSE c
             IN [s EXCEPT !.pitchFactor = factors[idx + 1]]
        [] param_idx = kHeraParamAttack ->
             [s EXCEPT !.voices = [i \in Slots |->
                 [s.voices[i] EXCEPT !.normalSettings.attack = value]]]
        [] param_idx = kHeraParamDecay ->
             [s EXCEPT !.voices = [i \in Slots |->
                 [s.voices[i] EXCEPT !.normalSettings.decay = value]]]
        [] param_idx = kHeraParamSustain ->
             [s EXCEPT !.voices = [i \in Slots |->
                 [s.voices[i] EXCEPT !.normalSettings.sustain = value]]]
        [] param_idx = kHeraParamRelease ->
             [s EXCEPT !.voices = [i \in Slots |->
                 [s.voices[i] EXCEPT !.normalSettings.release = value]]]
        [] param_idx = kHeraParamLFOTriggerMode ->
             LET newMode == CastInt(value) IN
             [s EXCEPT !.lfo = lfo_shutdown(s.lfo), !.lfoMode = newMode]
        [] OTHER -> s

\* apply_param whose attack write reaches both envelopes of each voice
apply_param_attack_both_envelopes(in, param_idx, value) ==
    IF param_idx < 0 \/ param_idx >= kHeraNumParameters THEN in
    ELSE
      LET s == [in EXCEPT !.params[param_idx] = value] IN
      CASE param_idx = kHeraParamVCAType ->
             [s EXCEPT !.vcaType = CastInt(value),
                       !.voices = [i \in Slots |->
                           [s.voices[i] EXCEPT !.vcaType = CastInt(value)]]]
        [] param_idx = kHeraParamPWMMod ->
             [s EXCEPT !.voices = [i \in Slots |->
                           [s.voices[i] EXCEPT !.pwmMod = CastInt(value)]]]
        [] param_idx = kHeraParamPitchRange ->
             LET factors == << Unit \div 2, Unit, 2 * Unit >>
                 c == CastInt(value)
                 idx == IF c > 2 THEN 2 ELSE IF c < 0 THEN 0 ELSE c
             IN [s EXCEPT !.pitchFactor = factors[idx + 1]]
        [] param_idx = kHeraParamAttack ->
             [s EXCEPT !.voices = [i \in Slots |->
                 [s.voices[i] EXCEPT !.normalSettings.attack = value,
                                     !.gateSettings.attack = value]]]
        [] param_idx = kHeraParamDecay ->
             [s EXCEPT !.voices = [i \in Slots |->
                 [s.voices[i] EXCEPT !.normalSettings.decay = value]]]
        [] param_idx = kHeraParamSustain ->
             [s EXCEPT !.voices = [i \in Slots |->
                 [s.voices[i] EXCEPT !.normalSettings.sustain = value]]]
        [] param_idx = kHeraParamRelease ->
             [s EXCEPT !.voices = [i \in Slots |->
                 [s.voices[i] EXCEPT !.normalSettings.release = value]]]
        [] param_idx = kHeraParamLFOTriggerMode ->
             LET newMode == CastInt(value) IN
             IF s.lfoMode # newMode
             THEN [s EXCEPT !.lfo = lfo_shutdown(s.lfo), !.lfoMode = newMode]
             ELSE s
        [] OTHER -> s

\* apply_param whose VCA-type write skips the slots that are not active
apply_param_vca_type_active_only(in, param_idx, value) ==
    IF param_idx < 0 \/ param_idx >= kHeraNumParameters THEN in
    ELSE
      LET s == [in EXCEPT !.params[param_idx] = value] IN
      CASE param_idx = kHeraParamVCAType ->
             [s EXCEPT !.vcaType = CastInt(value),
                       !.voices = [i \in Slots |->
                           IF s.voices[i].active
                           THEN [s.voices[i] EXCEPT !.vcaType = CastInt(value)]
                           ELSE s.voices[i]]]
        [] param_idx = kHeraParamPWMMod ->
             [s EXCEPT !.voices = [i \in Slots |->
                           [s.voices[i] EXCEPT !.pwmMod = CastInt(value)]]]
        [] param_idx = kHeraParamPitchRange ->
             LET factors == << Unit \div 2, Unit, 2 * Unit >>
                 c == CastInt(value)
                 idx == IF c > 2 THEN 2 ELSE IF c < 0 THEN 0 ELSE c
             IN [s EXCEPT !.pitchFactor = factors[idx + 1]]
        [] param_idx = kHeraParamAttack ->
             [s EXCEPT !.voices = [i \in Slots |->
                 [s.voices[i] EXCEPT !.normalSettings.attack = value]]]
        [] param_idx = kHeraParamDecay ->
             [s EXCEPT !.voices = [i \in Slots |->
                 [s.voices[i] EXCEPT !.normalSettings.decay = value]]]
        [] param_idx = kHeraParamSustain ->
             [s EXCEPT !.voices = [i \in Slots |->
                 [s.voices[i] EXCEPT !.normalSettings.sustain = value]]]
        [] param_idx = kHeraParamRelease ->
             [s EXCEPT !.voices = [i \in Slots |->
                 [s.voices[i] EXCEPT !.normalSettings.release = value]]]
        [] param_idx = kHeraParamLFOTriggerMode ->
             LET newMode == CastInt(value) IN
             IF s.lfoMode # newMode
             THEN [s EXCEPT !.lfo = lfo_shutdown(s.lfo), !.lfoMode = newMode]
             ELSE s
        [] OTHER -> s

apply_param(in, param_idx, value) ==
    IF param_idx < 0 \/ param_idx >= kHeraNumParameters THEN in
    ELSE
      LET s == [in EXCEPT !.params[param_idx] = value] IN
      CASE param_idx = kHeraParamVCAType ->
             [s EXCEPT !.vcaType = CastInt(value),
                       !.voices = [i \in Slots |->
                           [s.voices[i] EXCEPT !.vcaType = CastInt(value)]]]
        [] param_idx = kHeraParamPWMMod ->
             [s EXCEPT !.voices = [i \in Slots |->
                           [s.voices[i] EXCEPT !.pwmMod = CastInt(value)]]]
        [] param_idx = kHeraParamPitchRange ->
             LET factors == << Unit \div 2, Unit, 2 * Unit >>
                 c == CastInt(value)
                 idx == IF c > 2 THEN 2 ELSE IF c < 0 THEN 0 ELSE c
             IN [s EXCEPT !.pitchFactor = factors[idx + 1]]
        [] param_idx = kHeraParamAttack ->
             [s EXCEPT !.voices = [i \in Slots |->
                 [s.voices[i] EXCEPT !.normalSettings.attack = value]]]
        [] param_idx = kHeraParamDecay ->
             [s EXCEPT !.voices = [i \in Slots |->
                 [s.voices[i] EXCEPT !.normalSettings.decay = value]]]
        [] param_idx = kHeraParamSustain ->
             [s EXCEPT !.voices = [i \in Slots |->
                 [s.voices[i] EXCEPT !.normalSettings.sustain = value]]]
        [] param_idx = kHeraParamRelease ->
             [s EXCEPT !.voices = [i \in Slots |->
                 [s.voices[i] EXCEPT !.normalSettings.release = value]]]
        [] param_idx = kHeraParamLFOTriggerMode ->
             LET newMode == CastInt(value) IN
             IF s.lfoMode # newMode
             THEN [s EXCEPT !.lfo = lfo_shutdown(s.lfo), !.lfoMode = newMode]
             ELSE s
        [] OTHER -> s

-----------------------------------------------------------------------------
(* Presets *)

\* index of an XML id in g_param_ids, or -1 (the inner loop of load_preset_xml)
RECURSIVE param_index_of(_, _)
param_index_of(id, i) ==
    IF i >= kHeraNumParameters THEN -1
    ELSE IF g_param_ids[i + 1] = id THEN i
    ELSE param_index_of(id, i + 1)

\* the <PARAM id value> elements of a file, applied in file order
RECURSIVE preset_values(_, _)
preset_values(values, elems) ==
    IF elems = << >> THEN values
    ELSE LET i == param_index_of(Head(elems).id, 0) IN
         preset_values(IF i >= 0 THEN [values EXCEPT ![i] = Head(elems).value]
                       ELSE values,
                       Tail(elems))

\* load_preset_xml: one file gives one HeraPreset.  A file is
\* [size_ok, name, elems]; name "" stands for a file without a name attribute
load_preset_xml(file, preset_idx) ==
    [name |-> IF file.name # "" THEN file.name
              ELSE "Preset " \o ToString(preset_idx),
     values |-> preset_values(g_param_defaults, file.elems)]

\* load_presets: Preset000.xml, Preset001.xml, ... until one is missing; a
\* file that cannot be loaded is skipped
RECURSIVE load_presets(_, _)
load_presets(presets, files) ==
    IF files = << >> \/ Len(presets) >= MAX_PRESETS THEN presets
    ELSE IF Head(files).size_ok
         THEN load_presets(Append(presets,
                               load_preset_xml(Head(files), Len(presets))),
                           Tail(files))
         ELSE load_presets(presets, Tail(files))

RECURSIVE apply_preset_values(_, _, _)
apply_preset_values(in, p, i) ==
    IF i >= kHeraNumParameters THEN in
    ELSE Strict(in, apply_preset_values(apply_param(in, i, p.values[i]),
                                        p, i + 1))

\* apply_preset that leaves preset_name as it was
apply_preset_stale_name(in, preset_idx) ==
    IF preset_idx < 0 \/ preset_idx >= in.preset_count THEN in
    ELSE LET p == in.presets[preset_idx + 1] IN
         apply_preset_values([in EXCEPT !.current_preset = preset_idx], p, 0)

\* apply_preset: presets are indexed from 0; the sequence from 1
apply_preset(in, preset_idx) ==
    IF preset_idx < 0 \/ preset_idx >= in.preset_count THEN in
    ELSE LET p == in.presets[preset_idx + 1] IN
         apply_preset_values(
             [in EXCEPT !.current_preset = preset_idx, !.preset_name = p.name],
             p, 0)

-----------------------------------------------------------------------------
(* Voice management *)

RECURSIVE has_unreleased_from(_, _)
has_unreleased_from(voices, i) ==
    IF i >= MAX_VOICES THEN FALSE
    ELSE IF voices[i].active /\ ~isReleased(voices[i]) THEN TRUE
    ELSE has_unreleased_from(voices, i + 1)

has_unreleased_voices(in) == has_unreleased_from(in.voices, 0)

RECURSIVE first_inactive(_, _)
first_inactive(voices, i) ==
    IF i >= MAX_VOICES THEN -1
    ELSE IF ~voices[i].active THEN i
    ELSE first_inactive(voices, i + 1)

RECURSIVE first_released(_, _)
first_released(voices, i) ==
    IF i >= MAX_VOICES THEN -1
    ELSE IF isReleased(voices[i]) THEN i
    ELSE first_released(voices, i + 1)

\* find_free_voice without its second scan: a full pool always gives slot 0
find_free_voice_no_released_scan(in) ==
    LET a == first_inactive(in.voices, 0)
    IN IF a >= 0 THEN a ELSE 0

\* find_free_voice with its scans in the other order: a released voice is
\* taken before a free slot
find_free_voice_released_first(in) ==
    LET a == first_inactive(in.voices, 0)
        r == first_released(in.voices, 0)
    IN IF r >= 0 THEN r ELSE IF a >= 0 THEN a ELSE 0

find_free_voice(in) ==
    LET a == first_inactive(in.voices, 0)
        r == first_released(in.voices, 0)
    IN IF a >= 0 THEN a ELSE IF r >= 0 THEN r ELSE 0

\* note_on that gives up when every slot is held
note_on_drops_when_full(in, note, velocity) ==
    IF first_inactive(in.voices, 0) < 0 /\ first_released(in.voices, 0) < 0
    THEN in
    ELSE
      LET vi == find_free_voice(in)
          v1 == [in.voices[vi] EXCEPT !.active = TRUE, !.note = note,
                                      !.velocity = velocity,
                                      !.vcaType = in.vcaType]
          s1 == [in EXCEPT !.voices[vi] = v1]
          s2 == IF s1.lfoMode = kHeraLFOAuto /\ ~has_unreleased_voices(s1)
                THEN [s1 EXCEPT !.lfo = lfo_noteOn(s1.lfo)]
                ELSE s1
      IN [s2 EXCEPT !.voices[vi] =
              [setCurrentEnvelope(v1, env_noteOn(getCurrentEnvelope(v1)))
               EXCEPT !.dcoFreq = [note |-> note, bend |-> 0]]]

note_on(in, note, velocity) ==
    LET vi == find_free_voice(in)
        v1 == [in.voices[vi] EXCEPT !.active = TRUE, !.note = note,
                                    !.velocity = velocity,
                                    !.vcaType = in.vcaType]
        s1 == [in EXCEPT !.voices[vi] = v1]
        \* LFO auto-trigger: the pool is read with the slot already assigned
        \* and its envelope not yet restarted
        s2 == IF s1.lfoMode = kHeraLFOAuto /\ ~has_unreleased_voices(s1)
              THEN [s1 EXCEPT !.lfo = lfo_noteOn(s1.lfo)]
              ELSE s1
    IN [s2 EXCEPT !.voices[vi] =
            [setCurrentEnvelope(v1, env_noteOn(getCurrentEnvelope(v1)))
             EXCEPT !.dcoFreq = [note |-> note, bend |-> 0]]]

\* note_off_match that also takes a voice already released
RECURSIVE note_off_match_any_stage(_, _, _)
note_off_match_any_stage(voices, note, i) ==
    IF i >= MAX_VOICES THEN -1
    ELSE IF voices[i].active /\ voices[i].note = note THEN i
    ELSE note_off_match_any_stage(voices, note, i + 1)

\* note_off_match that takes the last matching slot instead of the first
note_off_match_highest(voices, note, i) ==
    LET S == {j \in Slots : /\ j >= i /\ voices[j].active
                            /\ voices[j].note = note
                            /\ ~isReleased(voices[j])}
    IN IF S = {} THEN -1 ELSE CHOOSE j \in S : \A k \in S : k <= j

\* the first slot from i on that note_off(note) releases, or -1
RECURSIVE note_off_match(_, _, _)
note_off_match(voices, note, i) ==
    IF i >= MAX_VOICES THEN -1
    ELSE IF voices[i].active /\ voices[i].note = note /\ ~isReleased(voices[i])
         THEN i
    ELSE note_off_match(voices, note, i + 1)

\* note_off that checks the LFO even when no voice matched
note_off_lfo_check_always(in, note) ==
    LET i == note_off_match(in.voices, note, 0)
        s1 == IF i < 0 THEN in
              ELSE [in EXCEPT !.voices[i] =
                       setCurrentEnvelope(in.voices[i],
                           env_noteOff(getCurrentEnvelope(in.voices[i])))]
    IN IF s1.lfoMode = kHeraLFOAuto /\ ~has_unreleased_voices(s1)
       THEN [s1 EXCEPT !.lfo = lfo_noteOff(s1.lfo)]
       ELSE s1

note_off(in, note) ==
    LET i == note_off_match(in.voices, note, 0) IN
    IF i < 0 THEN in
    ELSE LET s1 == [in EXCEPT !.voices[i] =
                       setCurrentEnvelope(in.voices[i],
                           env_noteOff(getCurrentEnvelope(in.voices[i])))]
         IN IF s1.lfoMode = kHeraLFOAuto /\ ~has_unreleased_voices(s1)
            THEN [s1 EXCEPT !.lfo = lfo_noteOff(s1.lfo)]
            ELSE s1

\* all_notes_off that releases the envelopes instead of shutting them down
all_notes_off_releasing(in) ==
    [in EXCEPT !.voices = [i \in Slots |->
        IF in.voices[i].active
        THEN [setCurrentEnvelope(in.voices[i],
                  env_noteOff(getCurrentEnvelope(in.voices[i])))
              EXCEPT !.active = FALSE, !.note = -1]
        ELSE in.voices[i]]]

all_notes_off(in) ==
    [in EXCEPT !.voices = [i \in Slots |->
        IF in.voices[i].active
        THEN [setCurrentEnvelope(in.voices[i],
                  env_shutdown(getCurrentEnvelope(in.voices[i])))
              EXCEPT !.active = FALSE, !.note = -1]
        ELSE in.voices[i]]]

-----------------------------------------------------------------------------
(* Audio rendering: the voice bookkeeping of a block *)

\* render_voice whose deactivation leaves the oscillator and the filter as
\* the block left them
render_voice_no_dsp_reset(in, vi, completes) ==
    LET v == in.voices[vi]
        v1 == [v EXCEPT !.normalEnvelope =
                            env_processNextBlock(v.normalEnvelope, completes),
                        !.gateEnvelope =
                            IF v.vcaType # kHeraVCATypeEnvelope
                            THEN env_processNextBlock(v.gateEnvelope, completes)
                            ELSE v.gateEnvelope,
                        !.dco = "run", !.vcf = "run"]
    IN IF ~env_isActive(getCurrentEnvelope(v1))
       THEN [in EXCEPT !.voices[vi] =
                [setCurrentEnvelope(v1, env_reset(getCurrentEnvelope(v1)))
                 EXCEPT !.gateEnvelope = env_reset(v1.gateEnvelope),
                        !.active = FALSE, !.note = -1]]
       ELSE [in EXCEPT !.voices[vi] = v1]

\* render_voice on slot vi; `completes`: the envelopes' current stage ends
\* within this block
render_voice(in, vi, completes) ==
    LET v == in.voices[vi]
        v1 == [v EXCEPT !.normalEnvelope =
                            env_processNextBlock(v.normalEnvelope, completes),
                        !.gateEnvelope =
                            IF v.vcaType # kHeraVCATypeEnvelope
                            THEN env_processNextBlock(v.gateEnvelope, completes)
                            ELSE v.gateEnvelope,
                        !.dco = "run", !.vcf = "run"]
    IN IF ~env_isActive(getCurrentEnvelope(v1))
       THEN [in EXCEPT !.voices[vi] =
                [setCurrentEnvelope(v1, env_reset(getCurrentEnvelope(v1)))
                 EXCEPT !.gateEnvelope = env_reset(v1.gateEnvelope),
                        !.dco = "clear", !.vcf = "clear",
                        !.active = FALSE, !.note = -1]]
       ELSE [in EXCEPT !.voices[vi] = v1]

\* the loop over the slots from v on: render_voice reads and writes no slot
\* but its own, so each slot's pass is taken on the pool as the loop found it
render_voices(in, v, done) ==
    [in EXCEPT !.voices = [i \in Slots |->
        IF i >= v /\ in.voices[i].active
        THEN render_voice(in, i, i \in done).voices[i]
        ELSE in.voices[i]]]

\* v2_render_block: the shared LFO, then every active voice in slot order.
\* done: the slots whose envelope stage ends in this block; lfoDone: the
\* same for the LFO window
v2_render_block(in, done, lfoDone) ==
    render_voices([in EXCEPT !.lfo = lfo_processBlock(in.lfo, lfoDone)],
                  0, done)

-----------------------------------------------------------------------------
(* Output conversion. Amplitudes are in thousandths of full scale. *)

\* hera_instance_t::output_gain, set once at creation
output_gain == Unit

TruncDiv(a, b) == IF a >= 0 THEN a \div b ELSE -((-a) \div b)

\* (int16_t)l of a 32-bit l: the low 16 bits, read as signed
CastInt16(l) ==
    LET m == l % (256 * 256) IN IF m >= 128 * 256 THEN m - 256 * 256 ELSE m

\* one output sample without the lower limit
out_sample_no_lower_clamp(x, gain) ==
    LET scaled == TruncDiv(x * (gain \div 100), 1000)
        l == TruncDiv(scaled * 32767, 1000)
    IN CastInt16(IF l > 32767 THEN 32767 ELSE l)

\* one output sample: chorus output x times gain, scaled by 32767, cast to
\* int32, limited to the int16 range, cast to int16
out_sample(x, gain) ==
    LET scaled == TruncDiv(x * (gain \div 100), 1000)
        l == TruncDiv(scaled * 32767, 1000)
        c == IF l > 32767 THEN 32767 ELSE IF l < -32768 THEN -32768 ELSE l
    IN CastInt16(c)

\* the frames v2_render_block renders of the frames it is asked for
render_frames(frames) ==
    IF frames > MAX_BLOCK_SIZE THEN MAX_BLOCK_SIZE ELSE frames

\* v2_render_block that writes no output when no voice is active
render_out_skips_silence(in, frames, chorusL, chorusR) ==
    IF \A v \in Slots : ~in.voices[v].active THEN << >>
    ELSE
      LET gain == (output_gain * (in.volume \div 100)) \div (Unit \div 100) IN
      [j \in 1 .. 2 * render_frames(frames) |->
          IF j % 2 = 1 THEN out_sample(chorusL[(j + 1) \div 2], gain)
          ELSE out_sample(chorusR[j \div 2], gain)]

\* what v2_render_block writes to out_interleaved_lr, from its start:
\* chorusL, chorusR are the chorus output of the block, frame by frame
render_out(in, frames, chorusL, chorusR) ==
    LET gain == (output_gain * (in.volume \div 100)) \div (Unit \div 100) IN
    [j \in 1 .. 2 * render_frames(frames) |->
        IF j % 2 = 1 THEN out_sample(chorusL[(j + 1) \div 2], gain)
        ELSE out_sample(chorusR[j \div 2], gain)]

-----------------------------------------------------------------------------
(* Plugin API v2 *)

\* v2_create_instance on a module directory whose presets folder holds `files`
v2_create_instance(files) ==
    LET raw == [params |-> [i \in ParamIdx |-> 0],
                voices |-> [i \in Slots |-> HeraVoiceState],
                lfo |-> HeraLFOWithEnvelope,
                pitchFactor |-> Unit,
                vcaType |-> kHeraVCATypeEnvelope,
                lfoMode |-> kHeraLFOAuto,
                pitchBend |-> 0,
                presets |-> << >>,
                preset_count |-> 0,
                current_preset |-> 0,
                preset_name |-> "Init",
                octave_transpose |-> 0,
                volume |-> (8 * Unit) \div 10]
        RECURSIVE defaults(_, _)
        defaults(in, i) ==
            IF i >= kHeraNumParameters THEN in
            ELSE Strict(in, defaults(apply_param(in, i, g_param_defaults[i]),
                                     i + 1))
        d == defaults(raw, 0)
        ps == load_presets(<< >>, files)
        l == [d EXCEPT !.presets = ps, !.preset_count = Len(ps)]
    IN IF l.preset_count > 0 THEN apply_preset(l, 0) ELSE l

\* the transpose without its limits
transposed_note_unclamped(in, data1) == data1 + in.octave_transpose * 12

\* the note of a 0x90/0x80 message after octave transpose
transposed_note(in, data1) ==
    LET n == data1 + in.octave_transpose * 12 IN
    IF n < 0 THEN 0 ELSE IF n > 127 THEN 127 ELSE n

\* v2_on_midi whose pitch bend passes over the voices already released
v2_on_midi_bend_skips_released(in, msg) ==
    IF Len(msg) < 2 THEN in
    ELSE
      LET status == (msg[1] \div 16) * 16
          data1 == msg[2]
          data2 == IF Len(msg) > 2 THEN msg[3] ELSE 0
          note == IF status = 144 \/ status = 128
                  THEN transposed_note(in, data1) ELSE data1
      IN CASE status = 144 ->
                IF data2 > 0 THEN note_on(in, note, data2)
                ELSE note_off(in, note)
           [] status = 128 -> note_off(in, note)
           [] status = 176 ->
                IF data1 = 120 \/ data1 = 123 THEN all_notes_off(in) ELSE in
           [] status = 224 ->
                LET bend == (data2 * 128 + data1) - 8192 IN
                [in EXCEPT !.pitchBend = bend,
                           !.voices = [i \in Slots |->
                               IF in.voices[i].active /\ ~isReleased(in.voices[i])
                               THEN [in.voices[i] EXCEPT !.dcoFreq =
                                        [note |-> in.voices[i].note,
                                         bend |-> bend]]
                               ELSE in.voices[i]]]
           [] OTHER -> in

\* v2_on_midi: msg is the sequence of message bytes
\* v2_on_midi that starts a voice for every note-on, velocity 0 included
v2_on_midi_zero_velocity_starts(in, msg) ==
    IF Len(msg) < 2 THEN in
    ELSE
      LET status == (msg[1] \div 16) * 16
          data1 == msg[2]
          data2 == IF Len(msg) > 2 THEN msg[3] ELSE 0
          note == IF status = 144 \/ status = 128
                  THEN transposed_note(in, data1) ELSE data1
      IN CASE status = 144 ->
                note_on(in, note, data2)
           [] status = 128 -> note_off(in, note)
           [] status = 176 ->
                IF data1 = 120 \/ data1 = 123 THEN all_notes_off(in) ELSE in
           [] status = 224 ->
                LET bend == (data2 * 128 + data1) - 8192 IN
                [in EXCEPT !.pitchBend = bend,
                           !.voices = [i \in Slots |->
                               IF in.voices[i].active
                               THEN [in.voices[i] EXCEPT !.dcoFreq =
                                        [note |-> in.voices[i].note,
                                         bend |-> bend]]
                               ELSE in.voices[i]]]
           [] OTHER -> in

v2_on_midi(in, msg) ==
    IF Len(msg) < 2 THEN in
    ELSE
      LET status == (msg[1] \div 16) * 16
          data1 == msg[2]
          data2 == IF Len(msg) > 2 THEN msg[3] ELSE 0
          note == IF status = 144 \/ status = 128
                  THEN transposed_note(in, data1) ELSE data1
      IN CASE status = 144 ->
                IF data2 > 0 THEN note_on(in, note, data2)
                ELSE note_off(in, note)
           [] status = 128 -> note_off(in, note)
           [] status = 176 ->
                IF data1 = 120 \/ data1 = 123 THEN all_notes_off(in) ELSE in
           [] status = 224 ->
                LET bend == (data2 * 128 + data1) - 8192 IN
                [in EXCEPT !.pitchBend = bend,
                           !.voices = [i \in Slots |->
                               IF in.voices[i].active
                               THEN [in.voices[i] EXCEPT !.dcoFreq =
                                        [note |-> in.voices[i].note,
                                         bend |-> bend]]
                               ELSE in.voices[i]]]
           [] OTHER -> in

\* the entry of g_shadow_params with this key, from entry i on, or 0
RECURSIVE shadow_lookup(_, _)
shadow_lookup(key, i) ==
    IF i > Len(g_shadow_params) THEN 0
    ELSE IF g_shadow_params[i].key = key THEN i
    ELSE shadow_lookup(key, i + 1)

\* a clamp that forgets the upper bound
clamp_lower_only(fval, lo, hi) == IF fval < lo THEN lo ELSE fval

clamp(fval, lo, hi) == IF fval < lo THEN lo ELSE IF fval > hi THEN hi ELSE fval

\* "Restore all shadow params": the loop over the catalog, from entry i on.
\* json is the record, a function from the keys it holds to their numbers
RECURSIVE restore_shadow_params(_, _, _)
restore_shadow_params(in, json, i) ==
    IF i > Len(g_shadow_params) THEN in
    ELSE LET d == g_shadow_params[i] IN
         Strict(in, restore_shadow_params(
             IF d.key \in DOMAIN json
             THEN apply_param(in, d.index, clamp(json[d.key], d.min_val, d.max_val))
             ELSE in,
             json, i + 1))

\* v2_set_param that silences the voices before it checks the preset index
v2_set_param_silences_first(in, key, val) ==
    CASE key = "state" ->
           LET s1 == IF "preset" \in DOMAIN val
                     THEN LET idx == CastInt(val["preset"]) IN
                          IF idx >= 0 /\ idx < in.preset_count
                          THEN apply_preset([in EXCEPT !.current_preset = idx], idx)
                          ELSE in
                     ELSE in
               s2 == IF "octave_transpose" \in DOMAIN val
                     THEN [s1 EXCEPT !.octave_transpose =
                              clamp(CastInt(val["octave_transpose"]), -3, 3)]
                     ELSE s1
           IN restore_shadow_params(s2, val, 1)
      [] key = "preset" ->
           LET idx == CastInt(val) IN
           IF idx >= 0 /\ idx < in.preset_count
           THEN apply_preset([all_notes_off(in) EXCEPT !.current_preset = idx], idx)
           ELSE all_notes_off(in)
      [] key = "volume" -> [in EXCEPT !.volume = clamp(val, 0, Unit)]
      [] key = "octave_transpose" ->
           [in EXCEPT !.octave_transpose = clamp(CastInt(val), -3, 3)]
      [] key = "all_notes_off" -> all_notes_off(in)
      [] OTHER ->
           LET i == shadow_lookup(key, 1) IN
           IF i = 0 THEN in
           ELSE LET d == g_shadow_params[i] IN
                apply_param(in, d.index, clamp(val, d.min_val, d.max_val))

\* v2_set_param whose named write skips the range clamp
v2_set_param_named_unclamped(in, key, val) ==
    CASE key = "state" ->
           LET s1 == IF "preset" \in DOMAIN val
                     THEN LET idx == CastInt(val["preset"]) IN
                          IF idx >= 0 /\ idx < in.preset_count
                          THEN apply_preset([in EXCEPT !.current_preset = idx], idx)
                          ELSE in
                     ELSE in
               s2 == IF "octave_transpose" \in DOMAIN val
                     THEN [s1 EXCEPT !.octave_transpose =
                              clamp(CastInt(val["octave_transpose"]), -3, 3)]
                     ELSE s1
           IN restore_shadow_params(s2, val, 1)
      [] key = "preset" ->
           LET idx == CastInt(val) IN
           IF idx >= 0 /\ idx < in.preset_count
           THEN apply_preset([all_notes_off(in) EXCEPT !.current_preset = idx], idx)
           ELSE in
      [] key = "volume" -> [in EXCEPT !.volume = clamp(val, 0, Unit)]
      [] key = "octave_transpose" ->
           [in EXCEPT !.octave_transpose = clamp(CastInt(val), -3, 3)]
      [] key = "all_notes_off" -> all_notes_off(in)
      [] OTHER ->
           LET i == shadow_lookup(key, 1) IN
           IF i = 0 THEN in
           ELSE apply_param(in, g_shadow_params[i].index, val)

\* v2_set_param(key, val): val is the number atof/atoi reads from the string,
\* or, for key "state", the record
\* v2_set_param whose preset change leaves the sounding voices alone
v2_set_param_preset_keeps_voices(in, key, val) ==
    CASE key = "state" ->
           LET s1 == IF "preset" \in DOMAIN val
                     THEN LET idx == CastInt(val["preset"]) IN
                          IF idx >= 0 /\ idx < in.preset_count
                          THEN apply_preset([in EXCEPT !.current_preset = idx], idx)
                          ELSE in
                     ELSE in
               s2 == IF "octave_transpose" \in DOMAIN val
                     THEN [s1 EXCEPT !.octave_transpose =
                              clamp(CastInt(val["octave_transpose"]), -3, 3)]
                     ELSE s1
           IN restore_shadow_params(s2, val, 1)
      [] key = "preset" ->
           LET idx == CastInt(val) IN
           IF idx >= 0 /\ idx < in.preset_count
           THEN apply_preset([in EXCEPT !.current_preset = idx], idx)
           ELSE in
      [] key = "volume" -> [in EXCEPT !.volume = clamp(val, 0, Unit)]
      [] key = "octave_transpose" ->
           [in EXCEPT !.octave_transpose = clamp(CastInt(val), -3, 3)]
      [] key = "all_notes_off" -> all_notes_off(in)
      [] OTHER ->
           LET i == shadow_lookup(key, 1) IN
           IF i = 0 THEN in
           ELSE LET d == g_shadow_params[i] IN
                apply_param(in, d.index, clamp(val, d.min_val, d.max_val))

v2_set_param(in, key, val) ==
    CASE key = "state" ->
           LET s1 == IF "preset" \in DOMAIN val
                     THEN LET idx == CastInt(val["preset"]) IN
                          IF idx >= 0 /\ idx < in.preset_count
                          THEN apply_preset([in EXCEPT !.current_preset = idx], idx)
                          ELSE in
                     ELSE in
               s2 == IF "octave_transpose" \in DOMAIN val
                     THEN [s1 EXCEPT !.octave_transpose =
                              clamp(CastInt(val["octave_transpose"]), -3, 3)]
                     ELSE s1
           IN restore_shadow_params(s2, val, 1)
      [] key = "preset" ->
           LET idx == CastInt(val) IN
           IF idx >= 0 /\ idx < in.preset_count
           THEN apply_preset([all_notes_off(in) EXCEPT !.current_preset = idx], idx)
           ELSE in
      [] key = "volume" -> [in EXCEPT !.volume = clamp(val, 0, Unit)]
      [] key = "octave_transpose" ->
           [in EXCEPT !.octave_transpose = clamp(CastInt(val), -3, 3)]
      [] key = "all_notes_off" -> all_notes_off(in)
      [] OTHER ->
           LET i == shadow_lookup(key, 1) IN
           IF i = 0 THEN in
           ELSE LET d == g_shadow_params[i] IN
                apply_param(in, d.index, clamp(val, d.min_val, d.max_val))

-----------------------------------------------------------------------------
(* Reading parameters and the state record *)

\* printf("%.4f") / printf("%.3f") of a float: the nearest number with four /
\* three decimals (the numbers written here are never halfway between two)
Round4(x) == IF x >= 0 THEN ((x + 5) \div 10) * 10 ELSE -((((-x) + 5) \div 10) * 10)
Round3(x) == IF x >= 0 THEN ((x + 50) \div 100) * 100 ELSE -((((-x) + 50) \div 100) * 100)

\* param_helper_get, the getParameter of section 6: the value stored for the
\* key's catalog entry, within the entry's range; found is FALSE for a key
\* the catalog does not hold
param_helper_get(values, key) ==
    LET i == shadow_lookup(key, 1) IN
    IF i = 0 THEN [found |-> FALSE, val |-> 0]
    ELSE LET d == g_shadow_params[i] IN
         [found |-> TRUE, val |-> clamp(values[d.index], d.min_val, d.max_val)]

\* the ",key:value" pairs of the state record, from catalog entry i on
RECURSIVE state_params(_, _)
state_params(in, i) ==
    IF i > Len(g_shadow_params) THEN << >>
    ELSE << [key |-> g_shadow_params[i].key,
             val |-> Round4(in.params[g_shadow_params[i].index])] >>
         \o state_params(in, i + 1)

\* v2_get_param("state") into a buffer that holds it: the record's
\* key/value pairs in the order they are written
get_state(in) ==
    << [key |-> "preset", val |-> in.current_preset * Unit],
       [key |-> "volume", val |-> Round4(in.volume)],
       [key |-> "octave_transpose", val |-> in.octave_transpose * Unit] >>
    \o state_params(in, 1)

\* v2_get_param(key) into a buffer that holds the answer: ok is FALSE for the
\* return value -1, val is the number or the text written
v2_get_param(in, key) ==
    CASE key = "preset" -> [ok |-> TRUE, val |-> in.current_preset]
      [] key = "preset_count" -> [ok |-> TRUE, val |-> in.preset_count]
      [] key = "preset_name" -> [ok |-> TRUE, val |-> in.preset_name]
      [] key = "name" -> [ok |-> TRUE, val |-> "Hera"]
      [] key = "volume" -> [ok |-> TRUE, val |-> Round3(in.volume)]
      [] key = "octave_transpose" -> [ok |-> TRUE, val |-> in.octave_transpose]
      [] OTHER ->
           LET r == param_helper_get(in.params, key) IN
           IF r.found THEN [ok |-> TRUE, val |-> r.val]
           ELSE IF key = "state" THEN [ok |-> TRUE, val |-> get_state(in)]
           ELSE [ok |-> FALSE, val |-> 0]

\* json_get_number: the number after the first "key": of the record
RECURSIVE json_get_number(_, _, _)
json_get_number(json, key, i) ==
    IF i > Len(json) THEN [found |-> FALSE, val |-> 0]
    ELSE IF json[i].key = key THEN [found |-> TRUE, val |-> json[i].val]
    ELSE json_get_number(json, key, i + 1)

\* the record as v2_set_param("state") reads it: each key it holds with the
\* number json_get_number finds for it
json_record(json) ==
    [k \in {json[i].key : i \in 1 .. Len(json)} |->
        json_get_number(json, k, 1).val]

-----------------------------------------------------------------------------
(* The environment: preset folders, MIDI bytes, parameter strings *)

\* keys and velocities a controller sends (data1, data2 of a note message)
Keys == {60, 62}
Velocities == {100}

XmlParam(i, v) == [id |-> i, value |-> v]

\* preset files: the initial patch, a gate-mode patch, a free-running-LFO
\* patch, a patch without a name whose cutoff is written above 1.0 and that
\* names an unknown id, and an empty (unloadable) file
FileInit == [size_ok |-> TRUE, name |-> "Init Patch", elems |-> << >>]
FileGate == [size_ok |-> TRUE, name |-> "Gate",
             elems |-> << XmlParam("VCAType", Unit) >>]
FileFree == [size_ok |-> TRUE, name |-> "Free",
             elems |-> << XmlParam("LFOTrigMode", 0) >>]
FileHot == [size_ok |-> TRUE, name |-> "",
            elems |-> << XmlParam("VCFCutoff", (3 * Unit) \div 2),
                         XmlParam("Unknown", Unit),
                         XmlParam("ENVRelease", Unit \div 4) >>]
FileEmpty == [size_ok |-> FALSE, name |-> "", elems |-> << >>]

\* the presets folder the module ships with, and other folders
FactoryDir == << FileInit, FileEmpty, FileGate, FileFree, FileHot >>
PresetDirs == { << >>, FactoryDir }

\* how many API calls a run makes
MaxEvents == 7

\* no call in progress.  The control thread: its position (a line of
\* note_on or apply_param), the call and its arguments, the slot vi it took
\* and the index i of its loop.  The render thread: its position (a line of
\* v2_render_block or render_voice), the slot v of its loop, whether stages
\* end in this block, the amplitude path (voice.vcaType) it read when it
\* advanced the envelopes (adv), chose the amplitude buffer (mix) and checked
\* for deactivation (chk), -1 before, and the paths read in the block (seen)
NoRun ==
    [ctl |-> [pc |-> "idle", op |-> "", note |-> -1, velocity |-> 0,
              value |-> 0, vi |-> -1, i |-> 0],
     rnd |-> [pc |-> "idle", v |-> 0, completes |-> FALSE,
              adv |-> -1, mix |-> -1, chk |-> -1, seen |-> {}]]

\* frames, chorus and out are those of a render call: the frames asked for,
\* the chorus output of the block and the samples written to the buffer;
\* slot is the slot a note message was handed to, -1 if there was none
NoCall ==
    [api |-> "create_instance", msg |-> << >>, key |-> "", val |-> 0,
     json |-> << >>, frames |-> 0, chorus |-> << 0, 0 >>, out |-> << >>,
     slot |-> -1]

\* the slot v2_on_midi(in, msg) hands its note to: the one note_on takes from
\* find_free_voice, or the one note_off releases
midi_slot(in, msg) ==
    IF Len(msg) < 2 THEN -1
    ELSE LET status == (msg[1] \div 16) * 16
             data2 == IF Len(msg) > 2 THEN msg[3] ELSE 0
             note == transposed_note(in, msg[2])
         IN CASE status = 144 /\ data2 > 0 -> find_free_voice(in)
              [] status = 144 /\ data2 = 0 -> note_off_match(in.voices, note, 0)
              [] status = 128 -> note_off_match(in.voices, note, 0)
              [] OTHER -> -1

Init ==
    /\ inst = v2_create_instance(FactoryDir)
    /\ last = NoCall
    /\ nev = 0
    /\ run = NoRun

OnMidi(msg) ==
    /\ nev < MaxEvents
    /\ nev' = nev + 1
    /\ run' = run
    /\ inst' = v2_on_midi(inst, msg)
    /\ last' = [NoCall EXCEPT !.api = "on_midi", !.msg = msg,
                              !.slot = midi_slot(inst, msg)]

SetParam(key, val) ==
    /\ nev < MaxEvents
    /\ nev' = nev + 1
    /\ run' = run
    /\ inst' = v2_set_param(inst, key, val)
    /\ last' = [NoCall EXCEPT !.api = "set_param", !.key = key, !.val = val]

MidiNoteOn == \E k \in Keys, v \in Velocities : OnMidi(<< 144, k, v >>)

MidiNoteOff == \E k \in Keys : OnMidi(<< 128, k, 0 >>)

MidiAllOff == \E c \in {120, 123} : OnMidi(<< 176, c, 0 >>)

SetVcaType == \E val \in {0, Unit} : SetParam("vca_type", val)

SetLfoTrigger == \E val \in {0, Unit} : SetParam("lfo_trigger", val)

ActiveSlots == {i \in Slots : inst.voices[i].active}

\* a block in which no running stage ends, or one in which the running stage
\* of every sounding voice and of the LFO window ends
RenderBlock ==
    /\ nev < MaxEvents
    /\ nev' = nev + 1
    /\ run' = run
    /\ \E completes \in BOOLEAN :
           inst' = v2_render_block(inst,
                       IF completes THEN ActiveSlots ELSE {}, completes)
    /\ last' = [NoCall EXCEPT !.api = "render_block"]

Next ==
    \/ MidiNoteOn
    \/ MidiNoteOff
    \/ MidiAllOff
    \/ SetVcaType
    \/ SetLfoTrigger
    \/ RenderBlock

Spec == Init /\ [][Next]_vars

-----------------------------------------------------------------------------
(* The parameter store: named writes, preset changes, state restore *)

ParamInit ==
    /\ \E files \in PresetDirs : inst = v2_create_instance(files)
    /\ last = NoCall
    /\ nev = 0
    /\ run = NoRun

\* how many set_param calls a run of the parameter store makes
MaxParamCalls == 3

\* keys and numbers a host writes: catalog keys and one that is none
ParamKeys ==
    {"vcf_cutoff", "vcf_env", "pwm_mod", "lfo_trigger", "attack", "nonesuch"}
ParamVals ==
    {-(2 * Unit), Unit \div 4, Unit \div 3, (3 * Unit) \div 2, 3 * Unit}

\* state records a host restores
StateRecords ==
    { ("preset" :> 3 * Unit) @@ ("volume" :> Unit \div 2),
      ("preset" :> 4 * Unit) @@ ("vcf_cutoff" :> 3 * Unit)
          @@ ("octave_transpose" :> 5 * Unit),
      ("vcf_env" :> -(2 * Unit)) @@ ("pwm_mod" :> (5 * Unit) \div 2)
          @@ ("octave_transpose" :> -Unit) @@ ("decay" :> Unit \div 3) }

SetNamedParam ==
    /\ nev < MaxParamCalls
    /\ \E key \in ParamKeys, val \in ParamVals : SetParam(key, val)

SetPreset ==
    /\ nev < MaxParamCalls
    /\ \E idx \in -1 .. 4 : SetParam("preset", idx * Unit)

RestoreState ==
    \E json \in StateRecords :
        /\ nev < MaxParamCalls
        /\ nev' = nev + 1
        /\ run' = run
        /\ inst' = v2_set_param(inst, "state", json)
        /\ last' = [NoCall EXCEPT !.api = "set_param", !.key = "state",
                                  !.json = json]

\* octave requests a host writes, in and out of range
OctaveVals == {-5, -3, 1, 3, 9}

SetOctave ==
    /\ nev < MaxParamCalls
    /\ \E o \in OctaveVals : SetParam("octave_transpose", o * Unit)

\* a key played while parameters are written
ParamNoteOn ==
    /\ nev < MaxParamCalls
    /\ OnMidi(<< 144, 60, 100 >>)

ParamNext ==
    \/ SetNamedParam
    \/ SetPreset
    \/ RestoreState
    \/ SetOctave
    \/ ParamNoteOn

ParamSpec == ParamInit /\ [][ParamNext]_vars

-----------------------------------------------------------------------------
(* Pitch bend *)

\* how many calls a run with the bend wheel makes
MaxBendEvents == 5

\* wheel positions: centre, half way up (+3.5 semitones), top
BendMsgs == { << 224, 0, 64 >>, << 224, 0, 96 >>, << 224, 127, 127 >> }

PitchBend ==
    /\ nev < MaxBendEvents
    /\ \E msg \in BendMsgs : OnMidi(msg)

BendNoteOn == nev < MaxBendEvents /\ MidiNoteOn

BendNoteOff == nev < MaxBendEvents /\ MidiNoteOff

BendRender == nev < MaxBendEvents /\ RenderBlock

BendNext ==
    \/ PitchBend
    \/ BendNoteOn
    \/ BendNoteOff
    \/ BendRender

BendSpec == Init /\ [][BendNext]_vars

-----------------------------------------------------------------------------
(* Rendering: the output buffer *)

\* how many calls a run of the renderer makes
MaxRenderCalls == 3

\* block sizes a host asks for: none, a short block, the largest block and
\* one frame more
FrameCounts == {0, 2, MAX_BLOCK_SIZE, MAX_BLOCK_SIZE + 1}

\* peak amplitudes (left, right) of the chorus output, in thousandths of full
\* scale: inside and beyond it
ChorusPeaks == { << 0, 0 >>, << 300, 1000 >>, << 1001, 400 >>, << 2000, 1500 >> }

\* the chorus output of a block: a signal that swings between +peak and -peak
ChorusOut(peak) == [i \in 1 .. MAX_BLOCK_SIZE |-> IF i % 2 = 1 THEN peak ELSE -peak]

RenderOut ==
    /\ nev < MaxRenderCalls
    /\ nev' = nev + 1
    /\ run' = run
    /\ \E frames \in FrameCounts, peaks \in ChorusPeaks, completes \in BOOLEAN :
          /\ inst' = v2_render_block(inst,
                         IF completes THEN ActiveSlots ELSE {}, completes)
          /\ last' = [NoCall EXCEPT !.api = "render_block",
                                    !.frames = frames,
                                    !.chorus = peaks,
                                    !.out = render_out(inst, frames,
                                                ChorusOut(peaks[1]),
                                                ChorusOut(peaks[2]))]

RenderNoteOn ==
    /\ nev < MaxRenderCalls
    /\ OnMidi(<< 144, 60, 100 >>)

SetVolume ==
    /\ nev < MaxRenderCalls
    /\ \E val \in {Unit \div 2, 3 * Unit} : SetParam("volume", val)

RenderNext ==
    \/ RenderOut
    \/ RenderNoteOn
    \/ SetVolume

RenderSpec == Init /\ [][RenderNext]_vars

-----------------------------------------------------------------------------
(* Note numbers: any note byte under any octave transpose *)

\* how many calls a run with transposed notes makes
MaxNoteEvents == 5

\* data1 of a note message: the lowest and the highest MIDI note, and the
\* highest value of the byte
NoteBytes == {0, 127, 255}

NoteSetOctave ==
    /\ nev < MaxNoteEvents
    /\ \E o \in {-5, 3} : SetParam("octave_transpose", o * Unit)

NoteKeyOn ==
    /\ nev < MaxNoteEvents
    /\ \E k \in NoteBytes : OnMidi(<< 144, k, 100 >>)

NoteKeyOff ==
    /\ nev < MaxNoteEvents
    /\ \E k \in NoteBytes : OnMidi(<< 128, k, 0 >>)

NoteAllOff == nev < MaxNoteEvents /\ OnMidi(<< 176, 123, 0 >>)

NoteRender == nev < MaxNoteEvents /\ RenderBlock

NoteNext ==
    \/ NoteSetOctave
    \/ NoteKeyOn
    \/ NoteKeyOff
    \/ NoteAllOff
    \/ NoteRender

NoteSpec == Init /\ [][NoteNext]_vars

-----------------------------------------------------------------------------
(* Voices over time: the host renders block after block *)

\* how many MIDI messages and parameter writes a run makes between the blocks
MaxLiveEvents == 5

LiveNoteOn == nev < MaxLiveEvents /\ OnMidi(<< 144, 60, 100 >>)

LiveNoteOff == nev < MaxLiveEvents /\ OnMidi(<< 128, 60, 0 >>)

LiveSetVcaType == nev < MaxLiveEvents /\ SetVcaType

\* a block: the host's audio callback, which is not counted
LiveRender(completes) ==
    /\ inst' = v2_render_block(inst,
                    IF completes THEN ActiveSlots ELSE {}, completes)
    /\ last' = [NoCall EXCEPT !.api = "render_block"]
    /\ nev' = nev
    /\ run' = run

LiveRenderLasts == LiveRender(FALSE)

\* a block in which the running stage of every sounding voice ends
LiveRenderDone == LiveRender(TRUE)

LiveNext ==
    \/ LiveNoteOn
    \/ LiveNoteOff
    \/ LiveSetVcaType
    \/ LiveRenderLasts
    \/ LiveRenderDone

\* the host keeps calling render, and attack, decay and release each take a
\* finite time: blocks in which the running stage ends keep coming
LiveSpec == Init /\ [][LiveNext]_vars /\ WF_vars(LiveRenderDone)

-----------------------------------------------------------------------------
(* A keyboard: keys pressed and released in every form MIDI has for it,       *)
(* while the octave and the amplitude mode are changed                        *)

\* how many calls a run at the keyboard makes
MaxKeyEvents == 5

\* a key is pressed with a velocity of its own (the key number), so that the
\* velocity a voice holds tells which key started it
KeyOn ==
    /\ nev < MaxKeyEvents
    /\ \E k \in Keys : OnMidi(<< 144, k, k >>)

\* a key is released: note-off, note-on with velocity 0, or a note-on of two
\* bytes
KeyOff ==
    /\ nev < MaxKeyEvents
    /\ \E k \in Keys :
          \E msg \in { << 128, k, 0 >>, << 144, k, 0 >>, << 144, k >> } :
              OnMidi(msg)

\* a message of fewer than two bytes
KeyShort ==
    /\ nev < MaxKeyEvents
    /\ \E msg \in { << >>, << 144 >> } : OnMidi(msg)

KeySetOctave ==
    /\ nev < MaxKeyEvents
    /\ \E o \in {0, 1} : SetParam("octave_transpose", o * Unit)

KeySetVcaType == nev < MaxKeyEvents /\ SetVcaType

KeyAllOff == nev < MaxKeyEvents /\ OnMidi(<< 176, 123, 0 >>)

KeyRender == nev < MaxKeyEvents /\ RenderBlock

KeyNext ==
    \/ KeyOn
    \/ KeyOff
    \/ KeyShort
    \/ KeySetOctave
    \/ KeySetVcaType
    \/ KeyAllOff
    \/ KeyRender

KeySpec == Init /\ [][KeyNext]_vars

-----------------------------------------------------------------------------
(* A full pool: more keys than voices *)

\* how many calls a run that fills the pool makes
MaxStealEvents == 8

StealMidi(msg) ==
    /\ nev < MaxStealEvents
    /\ nev' = nev + 1
    /\ run' = run
    /\ inst' = v2_on_midi(inst, msg)
    /\ last' = [NoCall EXCEPT !.api = "on_midi", !.msg = msg,
                              !.slot = midi_slot(inst, msg)]

StealKeyOn == \E k \in {60, 62} : StealMidi(<< 144, k, 100 >>)

StealKeyOff == \E k \in {60, 62} : StealMidi(<< 128, k, 0 >>)

StealRender ==
    /\ nev < MaxStealEvents
    /\ nev' = nev + 1
    /\ run' = run
    /\ \E completes \in BOOLEAN :
           inst' = v2_render_block(inst,
                       IF completes THEN ActiveSlots ELSE {}, completes)
    /\ last' = [NoCall EXCEPT !.api = "render_block"]

StealNext ==
    \/ StealKeyOn
    \/ StealKeyOff
    \/ StealRender

StealSpec == Init /\ [][StealNext]_vars

-----------------------------------------------------------------------------
(* Two threads without a lock: a control thread in note_on or in             *)
(* apply_param(kHeraParamVCAType), a render thread in v2_render_block, each   *)
(* taking one statement at a time.  Positions are source lines.               *)

\* how many calls a run of the two threads makes
MaxRaceCalls == 4

\* one statement of note_on
note_on_step(in, c) ==
    LET vi == c.vi IN
    CASE c.pc = "631" ->
           [inst |-> in,
            ctl |-> [c EXCEPT !.vi = find_free_voice(in), !.pc = "634"]]
      [] c.pc = "634" ->
           [inst |-> [in EXCEPT !.voices[vi].active = TRUE],
            ctl |-> [c EXCEPT !.pc = "635"]]
      [] c.pc = "635" ->
           [inst |-> [in EXCEPT !.voices[vi].note = c.note],
            ctl |-> [c EXCEPT !.pc = "637"]]
      [] c.pc = "637" ->
           [inst |-> [in EXCEPT !.voices[vi].velocity = c.velocity],
            ctl |-> [c EXCEPT !.pc = "638"]]
      [] c.pc = "638" ->
           [inst |-> [in EXCEPT !.voices[vi].vcaType = in.vcaType],
            ctl |-> [c EXCEPT !.pc = "641"]]
      [] c.pc = "641" ->
           [inst |-> IF in.lfoMode = kHeraLFOAuto /\ ~has_unreleased_voices(in)
                     THEN [in EXCEPT !.lfo = lfo_noteOn(in.lfo)]
                     ELSE in,
            ctl |-> [c EXCEPT !.pc = "647"]]
      [] c.pc = "647" ->
           [inst |-> [in EXCEPT !.voices[vi] =
                         setCurrentEnvelope(in.voices[vi],
                             env_noteOn(getCurrentEnvelope(in.voices[vi])))],
            ctl |-> [c EXCEPT !.pc = "650"]]
      [] OTHER ->
           [inst |-> [in EXCEPT !.voices[vi].dcoFreq =
                         [note |-> in.voices[vi].note, bend |-> 0]],
            ctl |-> [c EXCEPT !.pc = "done"]]

\* one statement of apply_param(inst, kHeraParamVCAType, value)
apply_param_step(in, c) ==
    CASE c.pc = "381" ->
           [inst |-> [in EXCEPT !.params[kHeraParamVCAType] = c.value],
            ctl |-> [c EXCEPT !.pc = "388"]]
      [] c.pc = "388" ->
           [inst |-> [in EXCEPT !.vcaType = CastInt(c.value)],
            ctl |-> [c EXCEPT !.pc = "390", !.i = 0]]
      [] OTHER ->
           [inst |-> [in EXCEPT !.voices[c.i].vcaType = in.vcaType],
            ctl |-> [c EXCEPT !.i = c.i + 1,
                              !.pc = IF c.i + 1 < MAX_VOICES THEN "390"
                                     ELSE "done"]]

\* one statement of v2_render_block or of the render_voice it calls
render_step(in, r) ==
    LET v == r.v
        voice == in.voices[v]
    IN
    CASE r.pc = "1134" ->
           [inst |-> [in EXCEPT !.lfo = lfo_processBlock(in.lfo, r.completes)],
            rnd |-> [r EXCEPT !.pc = "1163", !.v = 0, !.seen = {},
                              !.adv = -1, !.mix = -1, !.chk = -1]]
      [] r.pc = "1163" ->
           [inst |-> in,
            rnd |-> IF v >= MAX_VOICES THEN [r EXCEPT !.pc = "idle"]
                    ELSE IF voice.active
                         THEN [r EXCEPT !.pc = "692",
                                        !.adv = -1, !.mix = -1, !.chk = -1]
                         ELSE [r EXCEPT !.v = v + 1]]
      [] r.pc = "692" ->
           [inst |-> [in EXCEPT !.voices[v].normalEnvelope =
                         env_processNextBlock(voice.normalEnvelope, r.completes)],
            rnd |-> [r EXCEPT !.pc = "693"]]
      [] r.pc = "693" ->
           [inst |-> IF voice.vcaType # kHeraVCATypeEnvelope
                     THEN [in EXCEPT !.voices[v].gateEnvelope =
                              env_processNextBlock(voice.gateEnvelope,
                                                   r.completes)]
                     ELSE in,
            rnd |-> [r EXCEPT !.pc = "719", !.adv = voice.vcaType,
                              !.seen = r.seen \cup {voice.vcaType}]]
      [] r.pc = "719" ->
           [inst |-> [in EXCEPT !.voices[v].dco = "run"],
            rnd |-> [r EXCEPT !.pc = "723"]]
      [] r.pc = "723" ->
           [inst |-> in,
            rnd |-> [r EXCEPT !.pc = "745", !.mix = voice.vcaType]]
      [] r.pc = "745" ->
           [inst |-> [in EXCEPT !.voices[v].vcf = "run"],
            rnd |-> [r EXCEPT !.pc = "754"]]
      [] r.pc = "754" ->
           [inst |-> in,
            rnd |-> IF ~env_isActive(getCurrentEnvelope(voice))
                    THEN [r EXCEPT !.pc = "755", !.chk = voice.vcaType]
                    ELSE [r EXCEPT !.pc = "1163", !.chk = voice.vcaType,
                                   !.v = v + 1]]
      [] r.pc = "755" ->
           [inst |-> [in EXCEPT !.voices[v] =
                         setCurrentEnvelope(voice,
                             env_reset(getCurrentEnvelope(voice)))],
            rnd |-> [r EXCEPT !.pc = "756"]]
      [] r.pc = "756" ->
           [inst |-> [in EXCEPT !.voices[v].gateEnvelope =
                         env_reset(voice.gateEnvelope)],
            rnd |-> [r EXCEPT !.pc = "757"]]
      [] r.pc = "757" ->
           [inst |-> [in EXCEPT !.voices[v].dco = "clear"],
            rnd |-> [r EXCEPT !.pc = "758"]]
      [] r.pc = "758" ->
           [inst |-> [in EXCEPT !.voices[v].vcf = "clear"],
            rnd |-> [r EXCEPT !.pc = "759"]]
      [] r.pc = "759" ->
           [inst |-> [in EXCEPT !.voices[v].active = FALSE],
            rnd |-> [r EXCEPT !.pc = "760"]]
      [] OTHER ->
           [inst |-> [in EXCEPT !.voices[v].note = -1],
            rnd |-> [r EXCEPT !.pc = "1163", !.v = v + 1]]

CtlFree == run.ctl.pc \in {"idle", "done"}

\* the control thread enters note_on for key 60
RaceNoteOn ==
    /\ CtlFree /\ nev < MaxRaceCalls
    /\ run' = [run EXCEPT !.ctl = [NoRun.ctl EXCEPT !.pc = "631",
                                       !.op = "note_on", !.note = 60,
                                       !.velocity = 100]]
    /\ last' = [NoCall EXCEPT !.api = "on_midi", !.msg = << 144, 60, 100 >>]
    /\ nev' = nev + 1
    /\ inst' = inst

\* the control thread enters apply_param for a vca_type write
RaceSetVcaType ==
    /\ CtlFree /\ nev < MaxRaceCalls
    /\ \E val \in {0, Unit} :
          /\ run' = [run EXCEPT !.ctl = [NoRun.ctl EXCEPT !.pc = "381",
                                             !.op = "apply_param",
                                             !.value = val]]
          /\ last' = [NoCall EXCEPT !.api = "set_param", !.key = "vca_type",
                                    !.val = val]
    /\ nev' = nev + 1
    /\ inst' = inst

\* the control thread releases key 60, in one step
RaceNoteOff ==
    /\ CtlFree /\ nev < MaxRaceCalls
    /\ inst' = v2_on_midi(inst, << 128, 60, 0 >>)
    /\ run' = [run EXCEPT !.ctl = NoRun.ctl]
    /\ last' = [NoCall EXCEPT !.api = "on_midi", !.msg = << 128, 60, 0 >>,
                              !.slot = midi_slot(inst, << 128, 60, 0 >>)]
    /\ nev' = nev + 1

\* the host's audio callback enters v2_render_block
RaceRender ==
    /\ run.rnd.pc = "idle" /\ nev < MaxRaceCalls
    /\ \E completes \in BOOLEAN :
          run' = [run EXCEPT !.rnd = [NoRun.rnd EXCEPT !.pc = "1134",
                                         !.completes = completes]]
    /\ last' = [NoCall EXCEPT !.api = "render_block"]
    /\ nev' = nev + 1
    /\ inst' = inst

CtlStep ==
    /\ ~CtlFree
    /\ LET n == IF run.ctl.op = "note_on" THEN note_on_step(inst, run.ctl)
                ELSE apply_param_step(inst, run.ctl)
       IN /\ inst' = n.inst
          /\ run' = [run EXCEPT !.ctl = n.ctl]
    /\ UNCHANGED << last, nev >>

RenderStep ==
    /\ run.rnd.pc # "idle"
    /\ LET n == render_step(inst, run.rnd)
       IN /\ inst' = n.inst
          /\ run' = [run EXCEPT !.rnd = n.rnd]
    /\ UNCHANGED << last, nev >>

RaceNext ==
    \/ RaceNoteOn
    \/ RaceSetVcaType
    \/ RaceNoteOff
    \/ RaceRender
    \/ CtlStep
    \/ RenderStep

RaceSpec == Init /\ [][RaceNext]_vars

-----------------------------------------------------------------------------
(* Reading the last call *)

LastStatus == IF Len(last.msg) >= 1 THEN (last.msg[1] \div 16) * 16 ELSE 0

\* the last call was a MIDI message that reached note_on / note_off /
\* all_notes_off
IsNoteOn ==
    last.api = "on_midi" /\ Len(last.msg) >= 3 /\ LastStatus = 144
        /\ last.msg[3] > 0

IsNoteOff ==
    last.api = "on_midi" /\ Len(last.msg) >= 2
        /\ \/ LastStatus = 128
           \/ LastStatus = 144 /\ (Len(last.msg) < 3 \/ last.msg[3] = 0)

IsAllNotesOff ==
    \/ last.api = "on_midi" /\ Len(last.msg) >= 2 /\ LastStatus = 176
           /\ last.msg[2] \in {120, 123}
    \/ last.api = "set_param" /\ last.key = "all_notes_off"

\* the note and velocity handed to note_on / note_off by the last message
LastNote == transposed_note(inst, last.msg[2])
LastVelocity == last.msg[3]

Held(v) == v.active /\ getCurrentEnvelope(v).stage \in {"Attack", "Decay", "Sustain"}

ActiveSet(in) == {i \in Slots : in.voices[i].active}
HeldSet(in) == {i \in Slots : Held(in.voices[i])}
ReleasedSet(in) ==
    {i \in Slots : getCurrentEnvelope(in.voices[i]).stage \in {"Release", "Idle"}}

Lowest(S) == CHOOSE i \in S : \A j \in S : i <= j

-----------------------------------------------------------------------------
(* Claims *)

C3_NoteOnAssignsOneSlot ==
    [][ /\ Cardinality(ActiveSet(inst')) <= 6
        /\ IsNoteOn' =>
            /\ \E i \in Slots :
                  /\ inst'.voices[i].note = LastNote'
                  /\ \A j \in Slots \ {i} : inst'.voices[j] = inst.voices[j]
            /\ ActiveSet(inst) # Slots =>
                  /\ \A j \in ActiveSet(inst) : inst'.voices[j] = inst.voices[j]
                  /\ Cardinality(ActiveSet(inst')) = Cardinality(ActiveSet(inst)) + 1
            /\ HeldSet(inst) = Slots =>
                  /\ inst'.voices[0].note = LastNote'
                  /\ inst'.voices[0].active
                  /\ \A j \in Slots \ {0} : inst'.voices[j] = inst.voices[j]
      ]_vars

\* five voices of key 60 were started, a block was rendered, and the next
\* note-on (key 62) was given the free slot 5: the five are as the block left
\* them
C3_Witness ==
    /\ IsNoteOn /\ nev = 7 /\ LastNote = 62
    /\ HeldSet(inst) = Slots
    /\ inst.voices[5].note = 62
    /\ getCurrentEnvelope(inst.voices[5]).stage = "Attack"
    /\ getCurrentEnvelope(inst.voices[5]).level = 0
    /\ \A i \in Slots \ {5} :
          inst.voices[i].note = 60
              /\ getCurrentEnvelope(inst.voices[i]).stage = "Decay"

\* the voices note_off(note) can release in pool state `in`
Matching(in, note) ==
    {i \in Slots : /\ in.voices[i].active
                   /\ in.voices[i].note = note
                   /\ ~isReleased(in.voices[i])}

\* C4: note_off(n) releases the governing envelope of the lowest slot that is
\* active, carries note n and is not yet released, and of no other voice.
C4_NoteOffReleasesFirstMatch ==
    [][ (IsNoteOff' /\ Matching(inst, LastNote') # {}) =>
            LET m == Lowest(Matching(inst, LastNote')) IN
            /\ getCurrentEnvelope(inst'.voices[m]).stage = "Release"
            /\ inst'.voices[m] =
                  setCurrentEnvelope(inst.voices[m],
                      env_noteOff(getCurrentEnvelope(inst.voices[m])))
            /\ \A j \in Slots \ {m} : inst'.voices[j] = inst.voices[j]
      ]_vars

\* key 60 was started twice and released once: slot 0 is in Release, slot 1
\* is still held
C4_Witness ==
    /\ IsNoteOff /\ nev = 3 /\ LastNote = 60
    /\ inst.voices[0].note = 60 /\ inst.voices[0].active
    /\ getCurrentEnvelope(inst.voices[0]).stage = "Release"
    /\ inst.voices[1].note = 60 /\ Held(inst.voices[1])

\* C5: note_off(n) with no active, unreleased voice of note n changes
\* nothing: neither a voice nor the shared LFO.
C5_NoteOffWithoutMatch ==
    [][ (IsNoteOff' /\ Matching(inst, LastNote') = {}) => inst' = inst ]_vars

\* key 60 is held, the LFO window runs, and key 62 was released
C5_Witness ==
    /\ IsNoteOff /\ nev = 2 /\ LastNote = 62
    /\ Held(inst.voices[0]) /\ inst.voices[0].note = 60
    /\ inst.lfo.stage = "Delay"

\* C6: after all-notes-off (CC 120 or CC 123) no voice is active, and every
\* voice that was active has its governing envelope in Idle, reached in that
\* one step, and its note cleared.
C6_AllNotesOff ==
    [][ IsAllNotesOff' =>
            \A i \in Slots :
                /\ ~inst'.voices[i].active
                /\ inst.voices[i].active =>
                      /\ getCurrentEnvelope(inst'.voices[i]).stage = "Idle"
                      /\ inst'.voices[i].note = -1
      ]_vars

\* two notes were started and CC 123 arrived
C6_Witness ==
    /\ IsAllNotesOff /\ nev = 3 /\ last.msg[2] = 123
    /\ ActiveSet(inst) = {}
    /\ inst.voices[0].velocity > 0 /\ inst.voices[1].velocity > 0
    /\ inst.voices[0].note = -1 /\ inst.voices[1].note = -1

\* C7: in key-triggered mode a note-on triggers the shared LFO if and only
\* if no voice is held when it arrives; with a voice held the LFO is left as
\* it is.
C7_LfoTriggeredIffNoneHeld ==
    [][ (inst.lfoMode = kHeraLFOAuto /\ IsNoteOn') =>
            IF HeldSet(inst) = {}
            THEN inst'.lfo = lfo_noteOn(inst.lfo)
            ELSE inst'.lfo = inst.lfo
      ]_vars

\* C8: in key-triggered mode the note-off that releases the last held voice
\* shuts the LFO down, a note-off that leaves a voice held leaves the LFO as
\* it is, and the next note-on after such a shutdown (arriving with no voice
\* held) restarts the ramp.
C8_LfoShutdownOnLastRelease ==
    [][ inst.lfoMode = kHeraLFOAuto =>
            /\ (IsNoteOff' /\ Matching(inst, LastNote') # {}) =>
                  IF HeldSet(inst') = {}
                  THEN inst'.lfo.stage = "Off"
                  ELSE inst'.lfo = inst.lfo
            /\ (IsNoteOn' /\ inst.lfo.call = "noteOff" /\ HeldSet(inst) = {}) =>
                  inst'.lfo = lfo_noteOn(inst.lfo)
      ]_vars

\* C9: while the trigger mode is free-running the LFO window is triggered,
\* never shut, and note-on and note-off leave the LFO as it is.
C9_FreeRunningLfoAlwaysActive ==
    [][ inst'.lfoMode = kHeraLFOManual =>
            /\ inst'.lfo.stage # "Off"
            /\ (inst.lfoMode = kHeraLFOManual /\ (IsNoteOn' \/ IsNoteOff')) =>
                  inst'.lfo = inst.lfo
      ]_vars

\* C10: every value in the parameter store lies within its catalog range
\* [min_val, max_val], whatever was written by set_param, by a preset load
\* or by a state restore.
C10_StoreWithinCatalogRange ==
    \A i \in 1 .. Len(g_shadow_params) :
        LET d == g_shadow_params[i] IN
        /\ inst.params[d.index] >= d.min_val
        /\ inst.params[d.index] <= d.max_val

\* keys v2_set_param handles itself, before the catalog is looked up
ControlKeys == {"state", "preset", "volume", "octave_transpose", "all_notes_off"}

\* C11: set_param(key, v) for a catalog key stores clamp(v, min, max), which
\* get_param(key) then answers, and leaves every other stored parameter as it
\* was;
\* set_param with a key that is neither in the catalog nor a control key
\* changes nothing.
C11_SetThenGet ==
    [][ (last'.api = "set_param" /\ last'.key \notin ControlKeys) =>
            LET i == shadow_lookup(last'.key, 1) IN
            IF i = 0 THEN inst' = inst
            ELSE LET d == g_shadow_params[i] IN
                 /\ inst'.params[d.index] = clamp(last'.val, d.min_val, d.max_val)
                 /\ v2_get_param(inst', last'.key) =
                        [ok |-> TRUE, val |-> clamp(last'.val, d.min_val, d.max_val)]
                 /\ \A j \in ParamIdx \ {d.index} :
                        inst'.params[j] = inst.params[j]
      ]_vars

\* pwm_mod was written, then vcf_cutoff was written as 3.0 and reads 1.0
C11_Witness ==
    /\ last.api = "set_param" /\ last.key = "vcf_cutoff" /\ last.val = 3 * Unit
    /\ nev = 2
    /\ v2_get_param(inst, "vcf_cutoff").val = Unit
    /\ inst.params[kHeraParamPWMMod] = (3 * Unit) \div 2

\* the last call was set_param("preset", idx)
IsSetPreset == last.api = "set_param" /\ last.key = "preset"
LastPresetIdx == CastInt(last.val)

\* C12: loading a preset with a valid index writes all 26 parameters in one
\* call: the store equals the preset's values (nothing written earlier is
\* left), each consumer holds the preset's value, current_preset is the
\* index and preset_name is the preset's name.
C12_PresetLoadRepublishesAll ==
    [][ (IsSetPreset' /\ LastPresetIdx' >= 0
                      /\ LastPresetIdx' < inst.preset_count) =>
            LET p == inst.presets[LastPresetIdx' + 1] IN
            /\ \A i \in ParamIdx : inst'.params[i] = p.values[i]
            /\ inst'.current_preset = LastPresetIdx'
            /\ inst'.preset_name = p.name
            /\ inst'.vcaType = CastInt(p.values[kHeraParamVCAType])
            /\ inst'.lfoMode = CastInt(p.values[kHeraParamLFOTriggerMode])
            /\ \A v \in Slots :
                  /\ inst'.voices[v].vcaType = CastInt(p.values[kHeraParamVCAType])
                  /\ inst'.voices[v].pwmMod = CastInt(p.values[kHeraParamPWMMod])
      ]_vars

\* after two other calls the gate preset (index 1) was loaded
C12_Witness ==
    /\ IsSetPreset /\ LastPresetIdx = 1 /\ nev = 3
    /\ inst.current_preset = 1 /\ inst.preset_name = "Gate"
    /\ inst.vcaType = kHeraVCATypeGate
    /\ inst.params = inst.presets[2].values

\* the last call was set_param("state", record)
IsRestore == last.api = "set_param" /\ last.key = "state"

BadPresetIdx(in, idx) == idx < 0 \/ idx >= in.preset_count

\* C13: a preset index outside 0 .. preset_count-1 is ignored. Through
\* set_param("preset") nothing changes at all; through a state record the
\* current preset, its name, every voice's note, flags and envelopes and
\* every parameter the record does not name stay as they were; apply_preset
\* itself returns the instance as it was.
C13_BadPresetIndexIgnored ==
    [][ /\ (IsSetPreset' /\ BadPresetIdx(inst, LastPresetIdx')) => inst' = inst
        /\ (IsRestore' /\ "preset" \in DOMAIN last'.json
                       /\ BadPresetIdx(inst, CastInt(last'.json["preset"]))) =>
              /\ inst'.current_preset = inst.current_preset
              /\ inst'.preset_name = inst.preset_name
              /\ \A i \in 1 .. Len(g_shadow_params) :
                    g_shadow_params[i].key \notin DOMAIN last'.json =>
                        inst'.params[g_shadow_params[i].index]
                            = inst.params[g_shadow_params[i].index]
              /\ \A v \in Slots :
                    /\ inst'.voices[v].active = inst.voices[v].active
                    /\ inst'.voices[v].note = inst.voices[v].note
                    /\ inst'.voices[v].normalEnvelope = inst.voices[v].normalEnvelope
                    /\ inst'.voices[v].gateEnvelope = inst.voices[v].gateEnvelope
        /\ \A idx \in {-1, inst'.preset_count, inst'.preset_count + 1} :
              apply_preset(inst', idx) = inst'
      ]_vars

\* a key is held, the free-running preset (index 2) is loaded, and
\* set_param("preset", 4) arrived: four presets exist, the voice still sounds
C13_Witness ==
    /\ IsSetPreset /\ LastPresetIdx = 4 /\ nev = 3
    /\ inst.preset_count = 4 /\ inst.current_preset = 2
    /\ Held(inst.voices[0]) /\ inst.voices[0].note = 60

\* C14: the octave transpose is always within -3 .. 3; a request through
\* set_param("octave_transpose") or through a state record is stored as the
\* nearest value of that range.
C14_OctaveTransposeClamped ==
    [][ /\ inst'.octave_transpose \in -3 .. 3
        /\ (last'.api = "set_param" /\ last'.key = "octave_transpose") =>
              LET o == CastInt(last'.val) IN
              inst'.octave_transpose =
                  (IF o < -3 THEN -3 ELSE IF o > 3 THEN 3 ELSE o)
        /\ (IsRestore' /\ "octave_transpose" \in DOMAIN last'.json) =>
              LET o == CastInt(last'.json["octave_transpose"]) IN
              inst'.octave_transpose =
                  (IF o < -3 THEN -3 ELSE IF o > 3 THEN 3 ELSE o)
      ]_vars

\* the third call, set_param("octave_transpose", "9"), stored 3
C14_Witness ==
    /\ last.api = "set_param" /\ last.key = "octave_transpose"
    /\ last.val = 9 * Unit /\ nev = 3
    /\ inst.octave_transpose = 3

\* the instance after v2_set_param("state") is given the record that
\* v2_get_param("state") wrote for `in`
RoundTrip(in) == v2_set_param(in, "state", json_record(get_state(in)))

\* C15: restoring the record an instance serializes gives back the value of
\* each of the 26 parameters, the current preset index and the octave
\* transpose.
C15_StateRoundTrip ==
    /\ RoundTrip(inst).params = inst.params
    /\ RoundTrip(inst).current_preset = inst.current_preset
    /\ RoundTrip(inst).octave_transpose = inst.octave_transpose

\* the places of the state record that hold key k
RecordPlaces(rec, k) == {j \in 1 .. Len(rec) : rec[j].key = k}

\* C16: the catalog has 26 entries, every parameter index is the index of
\* exactly one entry and no key repeats; the serialized state record holds
\* each catalog key exactly once (beside preset, volume, octave_transpose).
C16_EveryIdExactlyOnce ==
    /\ Len(g_shadow_params) = kHeraNumParameters
    /\ \A idx \in ParamIdx :
          Cardinality({i \in 1 .. Len(g_shadow_params) :
                          g_shadow_params[i].index = idx}) = 1
    /\ \A i, j \in 1 .. Len(g_shadow_params) :
          g_shadow_params[i].key = g_shadow_params[j].key => i = j
    /\ LET rec == get_state(inst) IN
       /\ Len(rec) = kHeraNumParameters + 3
       /\ \A i \in 1 .. Len(g_shadow_params) :
             Cardinality(RecordPlaces(rec, g_shadow_params[i].key)) = 1
       /\ \A i \in 1 .. Len(g_shadow_params) :
             rec[i + 3] =
                 [key |-> g_shadow_params[i].key,
                  val |-> Round4(inst.params[g_shadow_params[i].index])]

\* a store changed by two calls whose record holds vcf_env once, as -1.0
C16_Witness ==
    /\ nev = 2
    /\ inst.params[kHeraParamVCFEnvelopeModDepth] = -Unit
    /\ \E j \in 1 .. Len(get_state(inst)) :
          get_state(inst)[j] = [key |-> "vcf_env", val |-> -Unit]
    /\ Cardinality(RecordPlaces(get_state(inst), "vcf_env")) = 1

\* the last call was v2_render_block
IsRender == last.api = "render_block"

\* C17 as stated: every render call writes all of the frames asked for, two
\* samples per frame, with or without active voices, and a render with no
\* active voice leaves every slot inactive.
C17_RenderWritesAllRequested ==
    [][ IsRender' =>
            /\ Len(last'.out) = 2 * last'.frames
            /\ ActiveSet(inst) = {} => ActiveSet(inst') = {}
      ]_vars

\* C17, amended: a render call asked for at most MAX_BLOCK_SIZE frames writes
\* all of them, two samples per frame; one asked for more writes the first
\* MAX_BLOCK_SIZE frames; both with or without active voices, and a render
\* with no active voice leaves every slot inactive.
C17_RenderWritesBlock ==
    [][ IsRender' =>
            /\ last'.frames <= MAX_BLOCK_SIZE => Len(last'.out) = 2 * last'.frames
            /\ last'.frames > MAX_BLOCK_SIZE => Len(last'.out) = 2 * MAX_BLOCK_SIZE
            /\ ActiveSet(inst) = {} => ActiveSet(inst') = {}
      ]_vars

\* the first call rendered a full block of 256 frames with no voice active
C17_Witness ==
    /\ IsRender /\ nev = 1 /\ last.frames = MAX_BLOCK_SIZE
    /\ ActiveSet(inst) = {}
    /\ Len(last.out) = 2 * MAX_BLOCK_SIZE

\* the chorus output of frame i (from 1) on channel ch (1 left, 2 right),
\* times the gain, times 32767, as a whole number
Scaled(ch, i) ==
    LET x == ChorusOut(last.chorus[ch])[i]
        gain == (output_gain * (inst.volume \div 100)) \div (Unit \div 100)
    IN TruncDiv(TruncDiv(x * (gain \div 100), 1000) * 32767, 1000)

\* C18: every sample written lies in -32768 .. 32767; a scaled value above
\* 32767 is written as 32767, one below -32768 as -32768, one within the
\* range as it is, for the left and the right channel each on its own.
C18_OutputClamped ==
    IsRender =>
        \A i \in 1 .. (Len(last.out) \div 2) :
            \A ch \in {1, 2} :
                LET y == last.out[2 * (i - 1) + ch]
                    z == Scaled(ch, i)
                IN /\ y \in -32768 .. 32767
                   /\ z > 32767 => y = 32767
                   /\ z < -32768 => y = -32768
                   /\ z \in -32768 .. 32767 => y = z

\* a block whose left channel was limited at both ends while the right
\* channel was written as scaled
C18_Witness ==
    /\ IsRender /\ last.frames = 2 /\ last.chorus = << 1001, 400 >>
    /\ inst.volume = Unit
    /\ last.out = << 32767, 13106, -32768, -13106 >>

\* the last call was a pitch-bend message; the bend it carries, in 1/8192 of
\* 7 semitones
IsPitchBend == last.api = "on_midi" /\ Len(last.msg) >= 2 /\ LastStatus = 224
LastBend ==
    ((IF Len(last.msg) > 2 THEN last.msg[3] ELSE 0) * 128 + last.msg[2]) - 8192

\* C19: a pitch-bend message sets the oscillator frequency of every active
\* voice to the base frequency of its note scaled by the bend and changes
\* nothing else of any voice (note, velocity, flags, envelopes) nor the LFO.
C19_PitchBendRetunesOnly ==
    [][ IsPitchBend' =>
            /\ \A v \in Slots :
                  inst'.voices[v] =
                      IF inst.voices[v].active
                      THEN [inst.voices[v] EXCEPT !.dcoFreq =
                               [note |-> inst.voices[v].note, bend |-> LastBend']]
                      ELSE inst.voices[v]
            /\ inst'.lfo = inst.lfo
            /\ inst'.params = inst.params
      ]_vars

\* key 60 sounds held in slot 0, key 62 sounds released in slot 1, and the
\* wheel was moved half way up: both are retuned, neither is retriggered
C19_Witness ==
    /\ IsPitchBend /\ LastBend = 4096
    /\ Held(inst.voices[0]) /\ inst.voices[0].dcoFreq = [note |-> 60, bend |-> 4096]
    /\ inst.voices[1].active /\ isReleased(inst.voices[1])
    /\ inst.voices[1].dcoFreq = [note |-> 62, bend |-> 4096]

\* C20: every active voice's oscillator frequency is the base frequency of
\* its note scaled by the bend now in force, also for a voice started while
\* the wheel was off centre.
C20_FrequencyFollowsBend ==
    \A v \in Slots :
        inst.voices[v].active =>
            inst.voices[v].dcoFreq =
                [note |-> inst.voices[v].note, bend |-> inst.pitchBend]

\* C21: a render block leaves every slot that was not active as it was; a
\* slot that was active stays active exactly when its governing envelope,
\* advanced by the block, is not Idle, and is then that envelope's; one whose
\* governing envelope reached Idle is inactive after the same block, its note
\* -1, its governing envelope reset, its oscillator and filter cleared.
C21_EndOfBlockDeactivation ==
    [][ IsRender' =>
            \A v \in Slots :
                IF ~inst.voices[v].active
                THEN inst'.voices[v] = inst.voices[v]
                ELSE \E completes \in BOOLEAN :
                       LET e == env_processNextBlock(
                                    getCurrentEnvelope(inst.voices[v]), completes)
                           w == inst'.voices[v]
                       IN /\ w.active = env_isActive(e)
                          /\ w.active = env_isActive(getCurrentEnvelope(w))
                          /\ w.active =>
                                /\ getCurrentEnvelope(w) = e
                                /\ w.note = inst.voices[v].note
                          /\ ~w.active =>
                                /\ w.note = -1
                                /\ w.dco = "clear" /\ w.vcf = "clear"
                                /\ getCurrentEnvelope(w) = HeraEnvelope
      ]_vars

\* keys 60 and 62 were started, 60 was released, and the block in which the
\* release ended freed slot 0 and left slot 1 sounding; slot 2 was never used
C21_Witness ==
    /\ IsRender /\ nev = 4
    /\ ~inst.voices[0].active /\ inst.voices[0].note = -1
    /\ inst.voices[0].velocity > 0 /\ inst.voices[0].dco = "clear"
    /\ inst.voices[1].active /\ inst.voices[1].note = 62
    /\ getCurrentEnvelope(inst.voices[1]).stage = "Decay"
    /\ inst.voices[1].dco = "run"
    /\ inst.voices[2] = HeraVoiceState

\* C22: while the host keeps rendering, a voice released by a note-off (its
\* governing envelope has received note-off) becomes inactive, unless a
\* further note-on arrives.
C22_ReleasedVoiceEventuallyFreed ==
    \A v \in Slots :
        (IsNoteOff /\ last.slot = v)
        ~> (~inst.voices[v].active \/ IsNoteOn)

\* C23: in every state a slot is active exactly when its note is not -1, and
\* the note of an active slot is within 0 .. 127; a note-on with any note
\* byte under any octave transpose is given a slot, which holds the
\* transposed note limited to 0 .. 127.
C23_ActiveIffNoteValid ==
    [][ /\ \A v \in Slots :
              /\ inst'.voices[v].active <=> inst'.voices[v].note # -1
              /\ inst'.voices[v].active => inst'.voices[v].note \in 0 .. 127
        /\ IsNoteOn' =>
              LET n == last'.msg[2] + 12 * inst.octave_transpose IN
              /\ last'.slot \in Slots
              /\ inst'.voices[last'.slot].active
              /\ inst'.voices[last'.slot].note =
                     (IF n < 0 THEN 0 ELSE IF n > 127 THEN 127 ELSE n)
      ]_vars

\* the octave transpose is 3, note byte 127 was played and sounds as note
\* 127; the voice started before it, byte 0, sounds as note 36
C23_Witness ==
    /\ IsNoteOn /\ nev = 3 /\ last.msg[2] = 127
    /\ inst.octave_transpose = 3
    /\ inst.voices[0].active /\ inst.voices[0].note = 36
    /\ inst.voices[1].active /\ inst.voices[1].note = 127

\* C24: with the control thread and the render thread interleaved statement
\* by statement, a note-on is not lost: once note_on has returned and no
\* note-off followed, the slot it took is never inactive with note -1.
C24_NoteOnNotLostUnderRace ==
    (run.ctl.op = "note_on" /\ run.ctl.pc = "done") =>
        ~ ( /\ ~inst.voices[run.ctl.vi].active
            /\ inst.voices[run.ctl.vi].note = -1 )

\* C25: a concurrent write of the amplitude path is seen by a render pass as
\* one store: every voice rendered in a block is advanced on the same path,
\* and within one render_voice call the path whose envelope was advanced, the
\* path whose buffer was mixed and the path checked for deactivation are the
\* same.
C25_SelectorReadConsistently ==
    /\ Cardinality(run.rnd.seen) <= 1
    /\ \A a, b \in {run.rnd.adv, run.rnd.mix, run.rnd.chk} \ {-1} : a = b

\* C26: a note-on that takes a slot which is still active (released or held)
\* first forces that slot's governing envelope to Idle, so the attack of the
\* new note starts from the silent level.
C26_StealStartsFromSilence ==
    [][ (IsNoteOn' /\ last'.slot \in Slots /\ inst.voices[last'.slot].active)
            => LET e == getCurrentEnvelope(inst'.voices[last'.slot])
               IN e.stage = "Attack" /\ e.start = 0
      ]_vars

\* C27: in every state each inactive slot holds cleared oscillator and filter
\* memory: a slot is returned to the free pool, by the end of a block or by
\* all-notes-off, only with both reset.
C27_InactiveSlotsCleared ==
    \A v \in Slots :
        ~inst.voices[v].active =>
            inst.voices[v].dco = "clear" /\ inst.voices[v].vcf = "clear"

\* C28: in every state each inactive slot has its general envelope and its
\* gate envelope in Idle.
C28_InactiveSlotsIdle ==
    \A v \in Slots :
        ~inst.voices[v].active =>
            /\ inst.voices[v].normalEnvelope.stage = "Idle"
            /\ inst.voices[v].gateEnvelope.stage = "Idle"

\* C29: in key-triggered mode, whenever no voice is held the shared LFO is
\* not in its triggered state.
C29_LfoRunsOnlyWhileHeld ==
    (inst.lfoMode = kHeraLFOAuto /\ HeldSet(inst) = {}) =>
        inst.lfo.stage = "Off"

\* the number the LFO trigger mode is last written with by the call: by a
\* write of lfo_trigger, the value within the key's range; by a valid preset
\* change, the preset's value; -1 for any other call
LfoTriggerWritten(in, call) ==
    IF call.api # "set_param" THEN -1
    ELSE IF call.key = "lfo_trigger" THEN clamp(call.val, 0, Unit)
    ELSE IF call.key = "preset" /\ CastInt(call.val) >= 0
                 /\ CastInt(call.val) < in.preset_count
         THEN in.presets[CastInt(call.val) + 1].values[kHeraParamLFOTriggerMode]
    ELSE -1

\* C30: a write of the LFO trigger mode, by name or by a preset load, whose
\* value as a mode differs from the current mode leaves the LFO shut down and
\* the mode switched; one whose value is the current mode leaves the LFO and
\* the mode as they were.
C30_LfoTriggerModeWrite ==
    [][ LfoTriggerWritten(inst, last') # -1 =>
            LET newMode == CastInt(LfoTriggerWritten(inst, last')) IN
            IF newMode # inst.lfoMode
            THEN /\ inst'.lfoMode = newMode
                 /\ inst'.lfo.stage = "Off" /\ inst'.lfo.call = "shutdown"
            ELSE /\ inst'.lfoMode = inst.lfoMode
                 /\ inst'.lfo = inst.lfo
      ]_vars

\* a key is down and has triggered the LFO; loading the preset "Free", whose
\* trigger mode is 0, has shut the LFO down and made it free-running
C30_Witness ==
    /\ nev = 2 /\ last.api = "set_param" /\ last.key = "preset"
    /\ last.val = 2 * Unit /\ inst.current_preset = 2
    /\ inst.lfoMode = kHeraLFOManual
    /\ inst.lfo = [stage |-> "Off", call |-> "shutdown"]
    /\ inst.voices[0].velocity > 0

\* C31: in every state the gate envelope of every voice has the attack,
\* decay, sustain and release it was constructed with, and the general
\* envelope of every voice has the attack, decay, sustain and release
\* parameters as they are stored: no named write, preset load or state
\* restore reaches the gate envelope.
C31_GateEnvelopeSettingsFixed ==
    \A v \in Slots :
        /\ inst.voices[v].gateSettings =
               [attack |-> 247, decay |-> 570, sustain |-> 98000,
                release |-> 570]
        /\ inst.voices[v].normalSettings =
               [attack |-> inst.params[kHeraParamAttack],
                decay |-> inst.params[kHeraParamDecay],
                sustain |-> inst.params[kHeraParamSustain],
                release |-> inst.params[kHeraParamRelease]]

\* the unnamed preset, whose release is 0.25, was loaded and then the attack
\* was written as 0.25: both reached the general envelope of the last voice
C31_Witness ==
    /\ nev = 2 /\ last.api = "set_param" /\ last.key = "attack"
    /\ last.val = Unit \div 4 /\ inst.current_preset = 3
    /\ inst.voices[5].normalSettings.attack = Unit \div 4
    /\ inst.voices[5].normalSettings.release = Unit \div 4
    /\ inst.voices[5].gateSettings.attack = 247

\* C32: a note-on message with velocity 0 (or with no velocity byte) has
\* exactly the effect of a note-off message for the same key: no slot becomes
\* active and no envelope is restarted; a message of fewer than 2 bytes
\* changes nothing.
C32_ZeroVelocityIsNoteOff ==
    [][ last'.api = "on_midi" =>
          /\ Len(last'.msg) < 2 => inst' = inst
          /\ ( /\ Len(last'.msg) >= 2
               /\ (last'.msg[1] \div 16) * 16 = 144
               /\ (Len(last'.msg) = 2 \/ last'.msg[3] = 0) )
             => /\ inst' = v2_on_midi(inst, << 128, last'.msg[2], 0 >>)
                /\ ActiveSet(inst') = ActiveSet(inst)
                /\ \A v \in Slots :
                      /\ inst'.voices[v].normalEnvelope.stage = "Attack"
                           => inst'.voices[v].normalEnvelope
                                  = inst.voices[v].normalEnvelope
                      /\ inst'.voices[v].gateEnvelope.stage = "Attack"
                           => inst'.voices[v].gateEnvelope
                                  = inst.voices[v].gateEnvelope
      ]_vars

\* key 62 was pressed an octave up and sounds as note 74 in slot 0; the
\* note-on with velocity 0 for key 62 released it
C32_Witness ==
    /\ nev = 3 /\ last.msg = << 144, 62, 0 >> /\ last.slot = 0
    /\ inst.octave_transpose = 1
    /\ inst.voices[0].active /\ inst.voices[0].note = 74
    /\ inst.voices[0].velocity = 62
    /\ inst.voices[0].normalEnvelope.stage = "Release"
    /\ ActiveSet(inst) = {0}

\* the slots whose voice was started by key k (pressed with velocity k) and
\* is active and not released
UnreleasedOfKey(in, k) ==
    {v \in Slots : /\ in.voices[v].active /\ ~isReleased(in.voices[v])
                   /\ in.voices[v].velocity = k}

\* C33: the release of a key releases the voice its press started: when one
\* voice started by key k is sounding unreleased, a note-off for key k leaves
\* no unreleased voice started by key k, whatever was done to the octave
\* transpose or to the VCA type since the press.
C33_ReleaseAfterPress ==
    [][ (IsNoteOff' /\ Cardinality(UnreleasedOfKey(inst, last'.msg[2])) = 1)
            => UnreleasedOfKey(inst', last'.msg[2]) = {}
      ]_vars

\* C34: in every state the amplitude-path selector of every slot, active or
\* not, is the instance's VCA type.
C34_SlotSelectorIsEngineSelector ==
    \A v \in Slots : inst.voices[v].vcaType = inst.vcaType

\* key 60 was pressed in envelope mode, the VCA type was written as gate, and
\* key 62 was pressed: both voices and the free slots are in gate mode
C34_Witness ==
    /\ IsNoteOn /\ nev = 3 /\ inst.vcaType = kHeraVCATypeGate
    /\ inst.voices[0].active /\ inst.voices[0].vcaType = kHeraVCATypeGate
    /\ inst.voices[0].normalEnvelope.stage = "Attack"
    /\ inst.voices[1].active /\ inst.voices[1].vcaType = kHeraVCATypeGate
    /\ inst.voices[1].gateEnvelope.stage = "Attack"
    /\ ~inst.voices[5].active /\ inst.voices[5].vcaType = kHeraVCATypeGate

\* C35: note-on restarts, note-off releases and all-notes-off shuts down the
\* envelope of the voice that the VCA type selects at that moment, and leaves
\* the voice's other envelope as it was.
C35_OnlyGoverningEnvelopeWritten ==
    [][ \A v \in Slots :
          LET a == inst.voices[v]
              b == inst'.voices[v]
              to == IF IsNoteOn' /\ last'.slot = v THEN "Attack"
                    ELSE IF IsNoteOff' /\ last'.slot = v THEN "Release"
                    ELSE IF IsAllNotesOff' /\ a.active THEN "Idle"
                    ELSE ""
          IN to # "" =>
               IF inst.vcaType = kHeraVCATypeEnvelope
               THEN b.normalEnvelope.stage = to
                        /\ b.gateEnvelope = a.gateEnvelope
               ELSE b.gateEnvelope.stage = to
                        /\ b.normalEnvelope = a.normalEnvelope
      ]_vars

\* key 60 was pressed in envelope mode and rendered, the VCA type was written
\* as gate, key 62 was pressed and released: its gate envelope is in Release
\* and its general envelope was never triggered, while the general envelope
\* of the first voice is where the block left it
C35_Witness ==
    /\ IsNoteOff /\ nev = 5 /\ last.slot = 1
    /\ inst.vcaType = kHeraVCATypeGate
    /\ inst.voices[1].gateEnvelope.stage = "Release"
    /\ inst.voices[1].normalEnvelope = HeraEnvelope
    /\ inst.voices[0].active
    /\ inst.voices[0].normalEnvelope.stage = "Decay"
    /\ inst.voices[0].gateEnvelope = HeraEnvelope

\* the slots that hold note n unreleased
HeldWith(in, n) == {v \in HeldSet(in) : in.voices[v].note = n}

\* C36: while a slot is free, a note-on takes a slot that was not in use and
\* adds it to the voices held with its note; a note-off of a note held by
\* several voices releases exactly the one in the lowest slot and leaves the
\* others held, so k presses followed by j < k releases leave k - j held.
C36_RepeatedNotes ==
    [][ /\ (IsNoteOn' /\ Cardinality(ActiveSet(inst)) < MAX_VOICES) =>
              /\ ~inst.voices[last'.slot].active
              /\ HeldWith(inst', LastNote') =
                     HeldWith(inst, LastNote') \cup {last'.slot}
              /\ last'.slot \notin HeldWith(inst, LastNote')
        /\ IsNoteOff' =>
              LET H == HeldWith(inst, LastNote') IN
              HeldWith(inst', LastNote') =
                  IF H = {} THEN {} ELSE H \ {Lowest(H)}
      ]_vars

\* key 60 was pressed three times and released twice with no block between:
\* slots 0 and 1 are released, in that order, and slot 2 is still held
C36_Witness ==
    /\ IsNoteOff /\ nev = 5 /\ last.slot = 1
    /\ \A v \in {0, 1, 2} : inst.voices[v].active /\ inst.voices[v].note = 60
    /\ \A v \in {0, 1} : inst.voices[v].normalEnvelope =
                             [stage |-> "Release", level |-> 0, start |-> 0]
    /\ inst.voices[2].normalEnvelope.stage = "Attack"
    /\ inst.voices[2].dco = "clear"
    /\ HeldWith(inst, 60) = {2}
    /\ ActiveSet(inst) = {0, 1, 2}

\* C37: in every state current_preset is 0 when no preset is loaded and
\* otherwise an index of a loaded preset, whose name preset_name then is; a
\* write of anything but "preset" and "state" leaves current_preset and
\* preset_name as they were.
C37_CurrentPresetValid ==
    [][ /\ \A s \in {inst, inst'} :
              IF s.preset_count = 0 THEN s.current_preset = 0
              ELSE /\ s.current_preset \in 0 .. s.preset_count - 1
                   /\ s.preset_name = s.presets[s.current_preset + 1].name
        /\ (last'.api # "set_param" \/ last'.key \notin {"preset", "state"})
              => /\ inst'.current_preset = inst.current_preset
                 /\ inst'.preset_name = inst.preset_name
      ]_vars

\* the unnamed fourth preset was selected and the cutoff was then written by
\* name: the preset is still the fourth, under the name it was given
C37_Witness ==
    /\ nev = 2 /\ last.api = "set_param" /\ last.key = "vcf_cutoff"
    /\ last.val = Unit \div 4
    /\ inst.preset_count = 4 /\ inst.current_preset = 3
    /\ inst.preset_name = "Preset 3"
    /\ inst.params[kHeraParamVCFCutoff] = Unit \div 4

\* C38: restoring a state record that holds a volume leaves the instance
\* with that volume, and the volume is within 0 .. 1 after every call.
C38_VolumeRestored ==
    [][ /\ inst'.volume >= 0 /\ inst'.volume <= Unit
        /\ ( /\ last'.api = "set_param" /\ last'.key = "state"
             /\ "volume" \in DOMAIN last'.json )
           => inst'.volume = clamp(last'.json["volume"], 0, Unit)
      ]_vars

\* C39: a set_param("preset", idx) with a valid index leaves no voice active;
\* one with an index that is not valid leaves the instance as it was.
C39_PresetChangeSilences ==
    [][ (last'.api = "set_param" /\ last'.key = "preset") =>
            IF CastInt(last'.val) >= 0 /\ CastInt(last'.val) < inst.preset_count
            THEN /\ ActiveSet(inst') = {}
                 /\ \A v \in Slots : inst'.voices[v].note = -1
                 /\ inst'.current_preset = CastInt(last'.val)
            ELSE inst' = inst
      ]_vars

\* key 60 was sounding when the preset "Gate" was selected: slot 0 still has
\* the key's velocity and is free, in gate mode
C39_Witness ==
    /\ nev = 2 /\ last.api = "set_param" /\ last.key = "preset"
    /\ last.val = Unit /\ inst.current_preset = 1
    /\ inst.voices[0].velocity = 100 /\ ~inst.voices[0].active
    /\ inst.voices[0].note = -1
    /\ inst.voices[0].vcaType = kHeraVCATypeGate
    /\ ActiveSet(inst) = {}

====
